---- MODULE Spec2Model ----
(***************************************************************************)
(* Verification model of the UI-Workspace client orchestration layer.      *)
(*                                                                         *)
(* Part 1 (specifications Spec, FairSpec): ApiManager of src/src/lib/api/manager.ts,  *)
(* the registry of per-backend HTTP clients with per-backend health flags, *)
(* normalized errors and per-backend bearer tokens.  JavaScript runs one   *)
(* task at a time, so every action below is one synchronous stretch of     *)
(* code: a call up to its first network await, or the continuation that    *)
(* runs when the awaited answer to a network call arrives.                 *)
(***************************************************************************)
EXTENDS Integers, Sequences, FiniteSets, Bags, TLC

(***************************************************************************)
(* Bounds and domains                                                      *)
(***************************************************************************)
\* number of stand-alone calls (request / healthCheck) that may be in
\* flight at the same time, next to the children of one healthCheckAll
MaxInFlight == 1

\* keys of workspaceConfig.backends
Backends == {"weather", "finance"}
\* a key that has no entry in workspaceConfig.backends
UnknownKeys == {"nokey"}
Keys == Backends \cup UnknownKeys
\* a key that is no entry of workspaceConfig.backends but names a property
\* every object literal inherits from Object.prototype
InheritedKeys == {"constructor"}
\* the backends a caller stores tokens for
TokenKeys == {"weather"}

\* token strings a caller may pass to setAuthToken (the empty string is a
\* string like any other)
Tokens == {"", "T1"}
\* what localStorage.getItem returns for a missing item
NoToken == "null"
\* JavaScript undefined, for string-valued properties
Undefined == "undefined"
\* a request without an Authorization header
NoHeader == "no-header"

Methods == {"POST"}
Endpoints == {"/weather/current"}
HealthEndpoint == "/health"

\* what the network does with one request: a 2xx answer, a non-2xx answer
\* (HTTP 401), a refused connection, the axios timeout
Outcomes == {"ok", "http401", "refused", "timeout"}
\* a 2xx answer whose payload reports the backend unhealthy
Unhealthy200 == "unhealthy200"
Is2xx(o) == o \in {"ok", Unhealthy200}

VARIABLES
    enabled,       \* {k : workspaceConfig.backends[k].enabled}, fixed at load
    hasWindow,     \* typeof window !== 'undefined' (browser, not server)
    clients,       \* keys of ApiManager.clients
    healthStatus,  \* ApiManager.healthStatus, a map from keys to booleans
    storage,       \* localStorage item auth_token_<k>, NoToken when missing
    inflight,      \* the stand-alone network calls that are awaiting an
                   \* answer, a bag of calls
    all,           \* the healthCheckAll in progress or last finished
    last,          \* the last thing the manager did, with what it returned
    checked,       \* history: keys whose healthCheck completed since
                   \* construction or the last refreshClients
    modules,       \* WorkspaceCalculationsManager.modules, a map from
                   \* module names to engines
    now,           \* Date.now(), in ticks
    calc,          \* the calculate call that awaits its engine, if any
    batch,         \* the batchCalculate call in progress, if any
    ret,           \* the last thing the calculation layer did, with what
                   \* it returned
    wx             \* the calculation put to the weather engine, with what
                   \* came back

\* the variables of the calculation layer
calcVars == <<modules, now, calc, batch, ret, wx>>

\* the variables of the client manager
managerVars == <<enabled, hasWindow, clients, healthStatus, storage, inflight,
                 all, last, checked>>

vars == <<enabled, hasWindow, clients, healthStatus, storage, inflight, all,
          last, checked, modules, now, calc, batch, ret, wx>>

\* the record kept in last: which operation (op, key), how far it got
\* (phase: sent, settled, returned), how it settled (status), what it
\* returned or threw (value), what the network did (outcome), the request
NoReq == [method |-> "-", url |-> "-"]

Event(op, key, phase, status, value, outcome, req) ==
    [op |-> op, key |-> key, phase |-> phase, status |-> status,
     value |-> value, outcome |-> outcome,
     method |-> req.method, url |-> req.url]

(***************************************************************************)
(* JavaScript helpers                                                      *)
(***************************************************************************)
\* truthiness of a string-valued expression (null, undefined and '' are falsy)
Truthy(s) == s \notin {NoToken, Undefined, ""}

EmptyMap == [k \in {} |-> TRUE]
MapSet(f, k, v) == [j \in DOMAIN f \cup {k} |-> IF j = k THEN v ELSE f[j]]
MapDelete(f, k) == [j \in DOMAIN f \ {k} |-> f[j]]

(***************************************************************************)
(* Authentication helpers                                                  *)
(***************************************************************************)
\* a token lookup under one key shared by all backends
getAuthTokenShared(k) == IF ~hasWindow THEN NoToken ELSE storage["weather"]

getAuthToken(k) == IF ~hasWindow THEN NoToken ELSE storage[k]

setAuthTokenStore(k, token) ==
    IF ~hasWindow THEN storage ELSE [storage EXCEPT ![k] = token]

clearAuthToken(k) ==
    IF ~hasWindow THEN storage ELSE [storage EXCEPT ![k] = NoToken]

\* an auth-error handler that leaves the token in place
handleAuthErrorKeepsToken(k) == storage

handleAuthError(k) == clearAuthToken(k)

\* request interceptor: the Authorization header put on a request to k
requestInterceptor(k) ==
    LET token == getAuthToken(k)
    IN  IF Truthy(token) THEN "Bearer " \o token ELSE NoHeader

(***************************************************************************)
(* The network and axios                                                   *)
(***************************************************************************)
\* response body of the 401 answer
Body401 == "{message:Unauthorized,code:AUTH_REQUIRED}"

\* data?.message and data?.code of a response body
DataMessage(data) == IF data = Body401 THEN "Unauthorized" ELSE Undefined
DataCode(data) == IF data = Body401 THEN "AUTH_REQUIRED" ELSE Undefined

\* the payload backend k answers with
Payload(k) == [status |-> "healthy", services |-> k]

\* the payload of the 2xx answer o of backend k
PayloadOf(k, o) ==
    IF o = Unhealthy200 THEN [status |-> "unhealthy", services |-> k]
    ELSE Payload(k)

\* the response axios resolves with on the 2xx answer o
AxiosResponse(k, req, o) ==
    [data |-> PayloadOf(k, o), status |-> 200, statusText |-> "OK"]

\* the error axios rejects with; error.response exists only when the backend
\* answered, error.config is the request that failed
AxiosError(o, req) ==
    LET config == [url |-> req.url, method |-> req.method]
    IN  CASE o = "http401" ->
                [response |-> [status |-> 401, data |-> Body401],
                 message |-> "Request failed with status code 401",
                 code |-> "ERR_BAD_REQUEST", config |-> config]
          [] o = "refused" ->
                [message |-> "Network Error",
                 code |-> "ECONNREFUSED", config |-> config]
          [] OTHER ->
                [message |-> "timeout exceeded",
                 code |-> "ECONNABORTED", config |-> config]

(***************************************************************************)
(* Error normalization                                                     *)
(***************************************************************************)
\* normalizeError(error, backendKey): error is any thrown value; a property
\* the value does not have reads as undefined
normalizeError(error, backendKey) ==
    LET hasResponse == "response" \in DOMAIN error
        respStatus == IF hasResponse THEN error.response.status ELSE 0
        data == IF hasResponse THEN error.response.data ELSE Undefined
        dataMessage == IF Truthy(data) THEN DataMessage(data) ELSE Undefined
        dataCode == IF Truthy(data) THEN DataCode(data) ELSE Undefined
        message == IF "message" \in DOMAIN error THEN error.message
                   ELSE Undefined
        code == IF "code" \in DOMAIN error THEN error.code ELSE Undefined
        hasConfig == "config" \in DOMAIN error
    IN  [message |-> IF Truthy(dataMessage) THEN dataMessage
                     ELSE IF Truthy(message) THEN message
                     ELSE "An error occurred",
         status |-> IF respStatus # 0 THEN respStatus ELSE 500,
         code |-> IF Truthy(dataCode) THEN dataCode ELSE code,
         details |->
            [backend |-> backendKey,
             url |-> IF hasConfig THEN error.config.url ELSE Undefined,
             method |-> IF hasConfig THEN error.config.method ELSE Undefined,
             originalError |-> IF Truthy(data) THEN data ELSE message]]

\* the Error thrown by request for a key without a client
NotConfiguredError(k) ==
    [name |-> "Error", message |-> "Backend is not configured or enabled",
     backend |-> k]

\* the Error thrown by healthCheck for a key without a configuration
NoConfigError(k) ==
    [name |-> "Error", message |-> "Backend is not configured",
     backend |-> k]

(***************************************************************************)
(* The request pipeline                                                    *)
(***************************************************************************)
\* response interceptor: what client.request settles with
responseInterceptor(k, req, o) ==
    IF Is2xx(o) THEN [ok |-> TRUE, value |-> AxiosResponse(k, req, o)]
    ELSE [ok |-> FALSE, value |-> normalizeError(AxiosError(o, req), k)]

\* an eviction that removes the token only when it is still the one the
\* request was sent with
storageAfterResponseOfSentToken(k, req, o) ==
    IF Is2xx(o) THEN storage
    ELSE LET error == AxiosError(o, req)
         IN  IF /\ "response" \in DOMAIN error
                /\ error.response.status = 401
                /\ req.Authorization = requestInterceptor(k)
             THEN handleAuthError(k)
             ELSE storage

\* response interceptor: its effect on the stored tokens
storageAfterResponse(k, req, o) ==
    IF Is2xx(o) THEN storage
    ELSE LET error == AxiosError(o, req)
         IN  IF "response" \in DOMAIN error /\ error.response.status = 401
             THEN handleAuthError(k)
             ELSE storage

\* request, from the answer to its await to its return or throw
requestSettle(k, req, o) ==
    LET r == responseInterceptor(k, req, o)
    IN  IF r.ok
        THEN [status |-> "resolved",
              value |-> [data |-> r.value.data, status |-> r.value.status,
                         message |-> r.value.statusText]]
        ELSE [status |-> "rejected", value |-> normalizeError(r.value, k)]

\* a healthCheck that takes the flag from the status the payload reports
healthCheckSettleByPayload(r) ==
    IF r.status = "resolved"
    THEN [status |-> "resolved", value |-> r.value.data,
          health |-> r.value.data.status = "healthy"]
    ELSE [status |-> "rejected", value |-> r.value, health |-> FALSE]

\* a healthCheck that swallows the failure of its request
healthCheckSettleSwallow(r) ==
    IF r.status = "resolved"
    THEN [status |-> "resolved", value |-> r.value.data, health |-> TRUE]
    ELSE [status |-> "resolved", value |-> r.value, health |-> FALSE]

\* healthCheck, from the settling of its request to its return or throw;
\* health is the flag it stores
healthCheckSettle(r) ==
    IF r.status = "resolved"
    THEN [status |-> "resolved", value |-> r.value.data, health |-> TRUE]
    ELSE [status |-> "rejected", value |-> r.value, health |-> FALSE]

\* a callback without the try/catch: a failed check stores no entry and
\* rejects the callback's promise
healthCheckAllCallbackNoCatch(hc) ==
    IF hc.status = "resolved"
    THEN [hasEntry |-> TRUE, entry |-> hc.value, settled |-> "fulfilled"]
    ELSE [hasEntry |-> FALSE, entry |-> hc.value, settled |-> "rejected"]

\* the callback healthCheckAll maps over the enabled backends: whether it
\* stores an entry, which one, and how its own promise settles
healthCheckAllCallback(hc) ==
    [hasEntry |-> TRUE, entry |-> hc.value, settled |-> "fulfilled"]

\* Promise.allSettled over the callbacks' promises
allSettled(settled) == "resolved"

\* an initialization without the enabled test
initializeClientsOfAll(cfgEnabled) == Backends

\* initializeClients: the keys that get a client
initializeClients(cfgEnabled) == {k \in Backends : k \in cfgEnabled}

\* a lookup that finds a client for every configured key, enabled or not
getClientOfAnyConfigured(k) == k \in Backends

getClient(k) == k \in clients

\* workspaceConfig.backends[k], a property read on an object literal: the
\* entry of a backend, what the object inherits under an inherited name,
\* undefined otherwise; only its truthiness and its healthEndpoint are used
backendConfig(k) ==
    IF k \in Backends THEN "BackendConfig"
    ELSE IF k \in InheritedKeys THEN "Object.prototype." \o k
    ELSE Undefined

\* a setter that overwrites the flag of every backend in the map
healthStatusSetEvery(k, v) == [j \in DOMAIN healthStatus \cup {k} |-> v]

\* this.healthStatus.set(k, v)
healthStatusSet(k, v) == MapSet(healthStatus, k, v)

\* a read that takes a missing flag for a healthy backend
isBackendHealthyByDefault(k) ==
    IF k \in DOMAIN healthStatus THEN healthStatus[k] ELSE TRUE

isBackendHealthy(k) ==
    IF k \in DOMAIN healthStatus THEN healthStatus[k] ELSE FALSE

getHealthyBackends == {k \in DOMAIN healthStatus : healthStatus[k]}

(***************************************************************************)
(* Part 2 (specification CalcSpec): WorkspaceCalculationsManager of        *)
(* src/next.config.js, the dispatcher of client-side calculations, with    *)
(* the engine of src/src/workSpaceCalcs/weather/index.ts and stand-in      *)
(* engines for what a registered ModuleCalculations may do.  The timestamp *)
(* of the metadata is left out.                                            *)
(***************************************************************************)
\* the module names callers use; only weather is registered at construction
ModuleNames == {"weather", "finance"}

\* WeatherCalculations.getSupportedCalculations
SupportedCalculations ==
    {"temperature_conversion", "heat_index", "wind_chill", "dew_point",
     "comfort_index", "weather_summary", "pressure_trend"}

\* JavaScript null, as the data of a failed result
Null == "null"

\* the data of an input, by what the weather engine makes of it: valid
\* passes the field checks of its type and computes, invalid fails the field
\* checks, faulty passes them and makes the computation throw (a
\* pressure_trend array that mixes BigInt and number entries)
DataValues == {"valid", "invalid", "faulty"}

\* the inputs callers pass
Inputs ==
    {[module |-> "weather", type |-> "heat_index", data |-> "valid"],
     [module |-> "weather", type |-> "heat_index", data |-> "invalid"],
     [module |-> "weather", type |-> "pressure_trend", data |-> "faulty"],
     [module |-> "finance", type |-> "heat_index", data |-> "valid"]}

\* the engines that get registered: the weather engine, and engines whose
\* validateInput throws an Error, whose calculate rejects with an Error,
\* whose calculate rejects with a plain object (an ApiError of the client
\* manager), and whose calculate resolves with a result without metadata
StubEngines ==
    {"throwingValidator", "rejectingEngine", "objectRejectingEngine",
     "bareEngine"}
Engines == {"weatherCalculations"} \cup StubEngines

\* how many inputs a batch may have, and how far the clock runs
MaxBatch == 3
MaxClock == 1

\* new Error(message) and a thrown plain object with a message property
ErrorOf(message) == [name |-> "Error", message |-> message]
PlainObjectOf(message) == [message |-> message]

\* error instanceof Error
instanceofError(error) == "name" \in DOMAIN error

\* what the engine computes from an input
EngineData(input) == input.type \o "(" \o input.data \o ")"

\* engine.validateInput(input): the boolean it returns, or what it throws
validateInput(engine, input) ==
    CASE engine = "weatherCalculations" ->
            [threw |-> FALSE,
             returned |-> /\ input.data # Null
                          /\ input.module = "weather"
                          /\ input.type \in SupportedCalculations
                          /\ input.data # "invalid"]
      [] engine = "throwingValidator" ->
            [threw |-> TRUE, error |-> ErrorOf("validator failed")]
      [] OTHER -> [threw |-> FALSE, returned |-> TRUE]

\* engine.calculate(input): how its promise settles.  The weather engine
\* catches what its computation throws and resolves with a failed result;
\* the processingTime it sets is its own measurement
engineCalculate(engine, input) ==
    CASE engine = "weatherCalculations" ->
            IF input.type \in SupportedCalculations /\ input.data = "valid"
            THEN [rejected |-> FALSE,
                  result |-> [success |-> TRUE, data |-> EngineData(input),
                              metadata |-> [calculationType |-> input.type,
                                            processingTime |-> 0]]]
            ELSE [rejected |-> FALSE,
                  result |-> [success |-> FALSE, data |-> Null,
                              error |->
                                  IF input.type \in SupportedCalculations
                                  THEN "Cannot mix BigInt and other types"
                                  ELSE "Unsupported calculation type: "
                                       \o input.type,
                              metadata |-> [calculationType |-> input.type,
                                            processingTime |-> 0]]]
      [] engine = "rejectingEngine" ->
            [rejected |-> TRUE, error |-> ErrorOf("engine failed")]
      [] engine = "objectRejectingEngine" ->
            [rejected |-> TRUE, error |-> PlainObjectOf("Network Error")]
      [] OTHER ->
            [rejected |-> FALSE,
             result |-> [success |-> TRUE, data |-> EngineData(input)]]

\* the metadata the dispatcher builds for its own results
DispatcherMetadata(input, startTime) ==
    [calculationType |-> input.type, processingTime |-> now - startTime]

\* the result of calculate for a module that is not registered
ModuleNotFound(input, startTime) ==
    [success |-> FALSE, data |-> Null,
     error |-> "Module '" \o input.module \o "' not found",
     metadata |-> DispatcherMetadata(input, startTime)]

\* the result of calculate for an input the engine does not accept
InvalidInput(input, startTime) ==
    [success |-> FALSE, data |-> Null,
     error |-> "Invalid input for calculation '" \o input.type
               \o "' in module '" \o input.module \o "'",
     metadata |-> DispatcherMetadata(input, startTime)]

\* the catch clause of calculate
EngineFailure(input, startTime, error) ==
    [success |-> FALSE, data |-> Null,
     error |-> IF instanceofError(error) THEN error.message
               ELSE "Unknown error occurred",
     metadata |-> DispatcherMetadata(input, startTime)]

\* a lookup that falls back to the weather engine
modulesGetOrDefault(name) ==
    IF name \in DOMAIN modules THEN modules[name] ELSE "weatherCalculations"

\* this.modules.get(name), Undefined when the name is not registered
modulesGet(name) ==
    IF name \in DOMAIN modules THEN modules[name] ELSE Undefined

\* a calculate that hands every input of a registered module to the engine's
\* calculate without validating it
calculateEnterUnvalidated(input) ==
    LET startTime == now
        engine == modulesGet(input.module)
        base == [input |-> input, startTime |-> startTime,
                 engine |-> engine]
    IN  IF engine = Undefined
        THEN base @@ [calls |-> <<>>,
                      result |-> ModuleNotFound(input, startTime)]
        ELSE base @@ [calls |-> <<"calculate">>]

\* calculate(input) up to its first await or, when it does not get that
\* far, to its return: the engine it found, the calls it made on the
\* engine, and its result when it has one
calculateEnter(input) ==
    LET startTime == now
        engine == modulesGet(input.module)
        base == [input |-> input, startTime |-> startTime,
                 engine |-> engine]
    IN  IF engine = Undefined
        THEN base @@ [calls |-> <<>>,
                      result |-> ModuleNotFound(input, startTime)]
        ELSE LET v == validateInput(engine, input)
             IN  IF v.threw
                 THEN base @@ [calls |-> <<"validateInput">>,
                               result |-> EngineFailure(input, startTime,
                                                        v.error)]
                 ELSE IF ~v.returned
                 THEN base @@ [calls |-> <<"validateInput">>,
                               result |-> InvalidInput(input, startTime)]
                 ELSE base @@ [calls |-> <<"validateInput", "calculate">>]

\* the calculate call has returned
IsSettled(call) == "result" \in DOMAIN call

\* calculate from the settling of the engine's promise to its return
calculateSettle(call) ==
    LET e == engineCalculate(call.engine, call.input)
    IN  call @@
        [result |->
            IF e.rejected
            THEN EngineFailure(call.input, call.startTime, e.error)
            ELSE IF "metadata" \in DOMAIN e.result
            THEN [e.result EXCEPT !.metadata.processingTime =
                                      now - call.startTime]
            ELSE e.result]

\* a calculate that throws what it could have reported
calculatePromiseRejects(call) ==
    IF call.result.success
    THEN [status |-> "fulfilled", value |-> call.result]
    ELSE [status |-> "rejected", reason |-> ErrorOf(call.result.error)]

\* calculate(input) run alone in the current state, from its call to its
\* return
calculateAlone(input) ==
    LET call == calculateEnter(input)
    IN  IF IsSettled(call) THEN call.result
        ELSE calculateSettle(call).result

\* the settlement of the promise calculate returns: every path of
\* calculate, the catch clause included, ends in a return
calculatePromise(call) == [status |-> "fulfilled", value |-> call.result]

\* the mapping batchCalculate applies to the settlements
batchMap(settlement) ==
    IF settlement.status = "fulfilled" THEN settlement.value
    ELSE [success |-> FALSE, data |-> Null,
          error |-> "Batch calculation failed",
          metadata |-> [calculationType |-> "batch"]]

\* initializeModules
initializeModules == [name \in {"weather"} |-> "weatherCalculations"]

\* the names registerModule is called with: any string is a name, and
\* __proto__ is the one that is not an ordinary property key of an object
RegisteredNames == ModuleNames \cup {"__proto__"}

\* the calculation types callers ask about
AskedTypes == {"heat_index", "net_present_value"}

\* engine.getSupportedCalculations(): the list of the weather engine, and of
\* the stand-in engines one type or none
getSupportedCalculations(engine) ==
    CASE engine = "weatherCalculations" ->
            <<"temperature_conversion", "heat_index", "wind_chill",
              "dew_point", "comfort_index", "weather_summary",
              "pressure_trend">>
      [] engine = "rejectingEngine" -> <<>>
      [] OTHER -> <<"net_present_value">>

\* list.includes(x)
includes(list, x) == \E i \in DOMAIN list : list[i] = x

\* the own enumerable keys of an object that started as {} and was assigned
\* obj[key] = value for each of the keys: an assignment to __proto__ goes to
\* the setter of Object.prototype, which makes an array value the prototype
\* of obj and creates no own property
OwnKeysAssigned(keys) == keys \ {"__proto__"}

\* getAllCalculations(): the object built by assigning one property for each
\* entry of the registry
getAllCalculations ==
    [name \in OwnKeysAssigned(DOMAIN modules) |->
        getSupportedCalculations(modules[name])]

\* getModuleCalculations(moduleName)
getModuleCalculations(moduleName) ==
    IF modulesGet(moduleName) # Undefined
    THEN getSupportedCalculations(modulesGet(moduleName))
    ELSE <<>>

\* an isCalculationSupported that asks the weather engine about a module
\* that is not registered
isCalculationSupportedByDefault(moduleName, calculationType) ==
    includes(getSupportedCalculations(modulesGetOrDefault(moduleName)),
             calculationType)

\* isCalculationSupported(moduleName, calculationType)
isCalculationSupported(moduleName, calculationType) ==
    IF modulesGet(moduleName) = Undefined THEN FALSE
    ELSE includes(getSupportedCalculations(modulesGet(moduleName)),
                  calculationType)

\* getAvailableModules(): the keys of the registry, as a set
getAvailableModules == DOMAIN modules

IdleCalc == [state |-> "idle"]
IdleBatch == [state |-> "idle"]

\* the record kept in ret: the operation, how far it got (awaiting, settled,
\* returned), how its promise settled, the calculate calls it made, what
\* it returned or threw
Returned(op, phase, status, calls, value) ==
    [op |-> op, phase |-> phase, status |-> status, calls |-> calls,
     value |-> value]

NothingReturned == Returned("constructor", "returned", "-", <<>>, "-")

(***************************************************************************)
(* Part 3 (specification WeatherSpec): the functions of the weather engine *)
(* of src/src/workSpaceCalcs/weather/index.ts, applied to inputs drawn     *)
(* from bounded sets.  Numbers are counted in thousandths and the          *)
(* arithmetic is exact: the rounding of the engine's Math.round is         *)
(* modelled, the rounding of floating-point operations is not.             *)
(***************************************************************************)
\* a JavaScript value as the engine looks at it: what typeof says, whether
\* it is NaN, and its magnitude in thousandths
Num(n) == [type |-> "number", nan |-> FALSE, n |-> n]
NaN == [type |-> "number", nan |-> TRUE, n |-> 0]
StringValue == [type |-> "string", nan |-> FALSE, n |-> 0]
Missing == [type |-> "undefined", nan |-> FALSE, n |-> 0]

\* typeof v === 'number'
typeofNumber(v) == v.type = "number"

\* v >= k and v <= k for a value v of type number and k in thousandths: a
\* comparison with NaN is false
Ge(v, k) == ~v.nan /\ v.n >= k
Le(v, k) == ~v.nan /\ v.n <= k
Gt(v, k) == ~v.nan /\ v.n > k
Lt(v, k) == ~v.nan /\ v.n < k

\* the data of an input: an object with the fields the calculations read
\* (Missing for a field it does not have), an array of samples, or null
ObjectData(temperature, humidity, pressure, windSpeed, fromUnit, toUnit) ==
    [kind |-> "object", temperature |-> temperature, humidity |-> humidity,
     pressure |-> pressure, windSpeed |-> windSpeed, fromUnit |-> fromUnit,
     toUnit |-> toUnit, samples |-> <<>>]
ArrayData(samples) ==
    [kind |-> "array", temperature |-> Missing, humidity |-> Missing,
     pressure |-> Missing, windSpeed |-> Missing, fromUnit |-> Undefined,
     toUnit |-> Undefined, samples |-> samples]
NullData ==
    [kind |-> "null", temperature |-> Missing, humidity |-> Missing,
     pressure |-> Missing, windSpeed |-> Missing, fromUnit |-> Undefined,
     toUnit |-> Undefined, samples |-> <<>>]

Units == {"celsius", "fahrenheit", "kelvin"}

\* a validateInput that checks the module and the data and lets every type
\* through
weatherValidateInputOfAnyType(input) ==
    input.data.kind # "null" /\ input.module = "weather"

\* WeatherCalculations.validateInput(input)
weatherValidateInput(input) ==
    LET data == input.data
    IN  IF data.kind = "null" \/ input.module # "weather" THEN FALSE
        ELSE CASE input.type = "temperature_conversion" ->
                      /\ typeofNumber(data.temperature)
                      /\ data.fromUnit \in Units
                      /\ data.toUnit \in Units
               [] input.type = "heat_index" ->
                      /\ typeofNumber(data.temperature)
                      /\ typeofNumber(data.humidity)
                      /\ Ge(data.humidity, 0)
                      /\ Le(data.humidity, 100000)
               [] input.type = "wind_chill" ->
                      /\ typeofNumber(data.temperature)
                      /\ typeofNumber(data.windSpeed)
                      /\ Ge(data.windSpeed, 0)
               [] input.type = "dew_point" ->
                      /\ typeofNumber(data.temperature)
                      /\ typeofNumber(data.humidity)
                      /\ Ge(data.humidity, 0)
                      /\ Le(data.humidity, 100000)
               [] input.type \in {"comfort_index", "weather_summary"} ->
                      /\ typeofNumber(data.temperature)
                      /\ typeofNumber(data.humidity)
                      /\ typeofNumber(data.pressure)
                      /\ typeofNumber(data.windSpeed)
               [] input.type = "pressure_trend" ->
                      /\ data.kind = "array"
                      /\ Len(data.samples) > 1
               [] OTHER -> FALSE

\* the value of a formula the model does not evaluate (the NOAA regression,
\* the wind chill formula with its power 0.16, the Magnus formula with its
\* logarithm): a number that is known only by the formula and its arguments
Formula(name, args) == [type |-> "number", formula |-> name, args |-> args]

\* Math.round(x), for x = numerator / denominator with denominator > 0: the
\* integer nearest to x, the upper one of two that are equally near
MathRound(numerator, denominator) ==
    (2 * numerator + denominator) \div (2 * denominator)

\* temperature * 9/5 + 32 < 80, in thousandths times 5
BelowEightyFahrenheit(temperature) ==
    ~temperature.nan /\ 9 * temperature.n + 5 * 32000 < 5 * 80000

\* a heat index that rounds the temperature it passes through to one decimal
calculateHeatIndexRounded(data) ==
    IF BelowEightyFahrenheit(data.temperature)
    THEN [heatIndex |-> Num(100 * MathRound(data.temperature.n, 100)),
          description |-> "Heat index not applicable (temperature too low)"]
    ELSE [heatIndex |-> Formula("heatIndex",
                                <<data.temperature, data.humidity>>),
          description |-> "category of the heat index"]

\* calculateHeatIndex(input); above the floor of 80 F the value of the
\* regression is not evaluated, nor the category it selects
calculateHeatIndex(data) ==
    IF BelowEightyFahrenheit(data.temperature)
    THEN [heatIndex |-> data.temperature,
          description |-> "Heat index not applicable (temperature too low)"]
    ELSE [heatIndex |-> Formula("heatIndex",
                                <<data.temperature, data.humidity>>),
          description |-> "category of the heat index"]

\* windSpeed * 3.6 < 4.8, in thousandths times 10
BelowWalkingPace(windSpeed) ==
    ~windSpeed.nan /\ 36 * windSpeed.n < 10 * 4800

\* a wind chill that passes the temperature through only when it is mild
\* and the wind is slow
calculateWindChillWhenBoth(data) ==
    IF Gt(data.temperature, 10000) /\ BelowWalkingPace(data.windSpeed)
    THEN [windChill |-> data.temperature,
          description |-> "Wind chill not applicable"]
    ELSE [windChill |-> Formula("windChill",
                                <<data.temperature, data.windSpeed>>),
          description |-> "risk of the wind chill"]

\* calculateWindChill(input); in the range of the formula its value is not
\* evaluated, nor the risk it selects
calculateWindChill(data) ==
    IF Gt(data.temperature, 10000) \/ BelowWalkingPace(data.windSpeed)
    THEN [windChill |-> data.temperature,
          description |-> "Wind chill not applicable"]
    ELSE [windChill |-> Formula("windChill",
                                <<data.temperature, data.windSpeed>>),
          description |-> "risk of the wind chill"]

\* the temperature in Celsius, times 45 so that every division is exact
\* (temperature - 32) * 5/9 and temperature - 273.15
ToCelsius45(n, fromUnit) ==
    CASE fromUnit = "celsius" -> 45 * n
      [] fromUnit = "fahrenheit" -> 25 * (n - 32000)
      [] fromUnit = "kelvin" -> 45 * (n - 273150)

\* celsius * 9/5 + 32 and celsius + 273.15, times 45
FromCelsius45(celsius45, toUnit) ==
    CASE toUnit = "celsius" -> celsius45
      [] toUnit = "fahrenheit" -> 9 * (celsius45 \div 5) + 45 * 32000
      [] toUnit = "kelvin" -> celsius45 + 45 * 273150

\* a conversion that rounds to one decimal
convertTemperatureOneDecimal(data) ==
    [convertedTemperature |->
        IF \/ data.temperature.nan
           \/ data.fromUnit \notin Units
           \/ data.toUnit \notin Units
        THEN NaN
        ELSE Num(100 * MathRound(FromCelsius45(ToCelsius45(data.temperature.n,
                                                           data.fromUnit),
                                               data.toUnit),
                                 45 * 100)),
     unit |-> data.toUnit]

\* convertTemperature(input): to Celsius, from Celsius to the target unit,
\* Math.round(result * 100) / 100.  A unit that is none of the three leaves
\* the variable of its switch undefined, and the result is NaN
convertTemperature(data) ==
    [convertedTemperature |->
        IF \/ data.temperature.nan
           \/ data.fromUnit \notin Units
           \/ data.toUnit \notin Units
        THEN NaN
        ELSE Num(10 * MathRound(FromCelsius45(ToCelsius45(data.temperature.n,
                                                          data.fromUnit),
                                              data.toUnit),
                                45 * 10)),
     unit |-> data.toUnit]

\* calculateDewPoint(input), with alpha = a*T / (b + T) + Math.log(humidity
\* / 100) and dewPoint = b*alpha / (a - alpha).  At humidity 0 the logarithm
\* is -Infinity, alpha is -Infinity and dewPoint is -Infinity / Infinity,
\* NaN; at humidity 100 the logarithm is 0 and dewPoint is the temperature,
\* which Math.round(dewPoint * 10) / 10 rounds to one decimal; in between
\* the value of the formula is not evaluated, nor the description it
\* selects.  Every comparison of temperature - NaN is false and leaves the
\* last description
calculateDewPoint(data) ==
    IF data.temperature.nan \/ data.humidity.nan \/ data.humidity.n = 0
    THEN [dewPoint |-> NaN, description |-> "Very humid and oppressive"]
    ELSE IF data.humidity.n = 100000
    THEN [dewPoint |-> Num(100 * MathRound(data.temperature.n, 100)),
          description |-> "Very humid and oppressive"]
    ELSE [dewPoint |-> Formula("dewPoint",
                               <<data.temperature, data.humidity>>),
          description |-> "comfort of the dew point"]

\* Math.abs(v - k) for a number v that is not NaN
AbsDiff(v, k) == IF v.n >= k THEN v.n - k ELSE k - v.n

Min(a, b) == IF a <= b THEN a ELSE b
Max(a, b) == IF a >= b THEN a ELSE b

\* the score of calculateComfortIndex after its clamp to 0..100
ComfortScore(data) ==
    LET temperature == data.temperature
        humidity == data.humidity
        windSpeed == data.windSpeed
        tempDiff == AbsDiff(temperature, 21000)
        humidityDiff == AbsDiff(humidity, 50000)
        afterTemperature ==
            50 + (IF ~temperature.nan /\ tempDiff < 2000 THEN 20
                  ELSE IF ~temperature.nan /\ tempDiff < 5000 THEN 10
                  ELSE IF ~temperature.nan /\ tempDiff < 10000 THEN 0 - 10
                  ELSE 0 - 20)
        afterHumidity ==
            afterTemperature
            + (IF ~humidity.nan /\ humidityDiff < 10000 THEN 15
               ELSE IF ~humidity.nan /\ humidityDiff < 20000 THEN 5
               ELSE IF ~humidity.nan /\ humidityDiff < 30000 THEN 0 - 5
               ELSE 0 - 15)
        afterWind ==
            afterHumidity
            + (IF Gt(windSpeed, 500) /\ Lt(windSpeed, 3000) THEN 10
               ELSE IF Lt(windSpeed, 500) THEN 0 - 5
               ELSE IF Gt(windSpeed, 8000) THEN 0 - 15
               ELSE 0)
    IN  Max(0, Min(100, afterWind))

\* the description calculateComfortIndex selects for a score
ComfortDescription(score) ==
    IF score >= 80 THEN "Excellent weather conditions"
    ELSE IF score >= 60 THEN "Good weather conditions"
    ELSE IF score >= 40 THEN "Fair weather conditions"
    ELSE IF score >= 20 THEN "Poor weather conditions"
    ELSE "Very poor weather conditions"

\* the factors of calculateComfortIndex: Math.min and Math.max of NaN are NaN
ComfortFactors(data) ==
    LET tempDiff == AbsDiff(data.temperature, 21000)
        humidityDiff == AbsDiff(data.humidity, 50000)
    IN  [temperature |-> data.temperature,
         humidity |-> data.humidity,
         windSpeed |-> data.windSpeed,
         temperatureScore |->
             IF data.temperature.nan THEN NaN
             ELSE Num(Max(0, Min(40000, 40000 - 2 * tempDiff))),
         humidityScore |->
             IF data.humidity.nan THEN NaN
             ELSE Num(Max(0, Min(30000, 30000 - humidityDiff))),
         windScore |->
             IF Gt(data.windSpeed, 500) /\ Lt(data.windSpeed, 3000)
             THEN Num(10000)
             ELSE IF Gt(data.windSpeed, 8000) THEN Num(0 - 15000)
             ELSE Num(0 - 5000)]

\* a comfort index that starts from 60 and is not clamped
calculateComfortIndexUnclamped(data) ==
    [comfortIndex |-> Num(1000 * (ComfortScore(data) + 10)),
     description |-> ComfortDescription(ComfortScore(data) + 10),
     factors |-> ComfortFactors(data)]

\* calculateComfortIndex(data); Math.round of the score is the score, an
\* integer
calculateComfortIndex(data) ==
    [comfortIndex |-> Num(1000 * ComfortScore(data)),
     description |-> ComfortDescription(ComfortScore(data)),
     factors |-> ComfortFactors(data)]

\* generateWeatherSummary(data); the summary is kept as the four values its
\* template prints
generateWeatherSummary(data) ==
    LET temperature == data.temperature
        humidity == data.humidity
        pressure == data.pressure
        windSpeed == data.windSpeed
        forTemperature ==
            IF Lt(temperature, 0)
            THEN <<"Dress in layers and cover exposed skin">>
            ELSE IF Lt(temperature, 10000)
            THEN <<"Wear warm clothing and jacket">>
            ELSE IF Gt(temperature, 30000)
            THEN <<"Stay hydrated and seek shade">>
            ELSE <<>>
        forHumidity ==
            IF Gt(humidity, 80000)
            THEN <<"High humidity may cause discomfort">>
            ELSE IF Lt(humidity, 30000)
            THEN <<"Low humidity - stay hydrated">>
            ELSE <<>>
        forWind ==
            IF Gt(windSpeed, 10000)
            THEN <<"Strong winds - secure loose objects">>
            ELSE <<>>
        forPressure ==
            IF Lt(pressure, 1000000)
            THEN <<"Low pressure may indicate weather changes">>
            ELSE IF Gt(pressure, 1020000)
            THEN <<"High pressure usually indicates stable weather">>
            ELSE <<>>
    IN  [summary |-> <<temperature, humidity, windSpeed, pressure>>,
         recommendations |->
             forTemperature \o forHumidity \o forWind \o forPressure,
         alerts |->
             (IF Lt(temperature, 0)
              THEN <<"Freezing temperatures - risk of frostbite">>
              ELSE IF Gt(temperature, 35000)
              THEN <<"Very hot weather - heat exhaustion possible">>
              ELSE <<>>)
             \o (IF Gt(windSpeed, 10000) THEN <<"High wind speeds">>
                 ELSE <<>>)]

\* an array of numbers, from their magnitudes in thousandths
Samples(magnitudes) == [i \in DOMAIN magnitudes |-> Num(magnitudes[i])]

\* the sum of the samples of a window none of which is NaN
RECURSIVE SumOf(_)
SumOf(window) ==
    IF window = <<>> THEN 0 ELSE Head(window).n + SumOf(Tail(window))

\* the sum of the window is NaN: one of its samples is
SumIsNaN(window) == \E i \in DOMAIN window : window[i].nan

\* pressureData.slice(-3) and pressureData.slice(-6, -3)
Recent(pressureData) ==
    SubSeq(pressureData, Max(1, Len(pressureData) - 2), Len(pressureData))
Earlier(pressureData) ==
    IF Len(pressureData) <= 3 THEN <<>>
    ELSE SubSeq(pressureData, Max(1, Len(pressureData) - 5),
                Len(pressureData) - 3)

Abs(x) == IF x >= 0 THEN x ELSE 0 - x

\* what analyzePressureTrend returns for change = numerator / denominator
\* thousandths of a hPa when everything within one hPa, the bound included,
\* counts as stable
TrendOfInclusive(numerator, denominator) ==
    [trend |-> IF Abs(numerator) <= 1000 * denominator THEN "stable"
               ELSE IF numerator > 0 THEN "rising" ELSE "falling",
     prediction |->
         IF Abs(numerator) <= 1000 * denominator
         THEN "Weather conditions likely to remain stable"
         ELSE IF numerator > 0
         THEN IF numerator > 3000 * denominator
              THEN "Rapidly improving weather expected"
              ELSE "Generally improving weather expected"
         ELSE IF numerator < 0 - 3000 * denominator
              THEN "Rapidly deteriorating weather possible"
              ELSE "Weather may deteriorate",
     strength |-> Num(100 * MathRound(Abs(numerator), 100 * denominator))]

\* the trend, the prediction and the strength of analyzePressureTrend for
\* change = numerator / denominator thousandths of a hPa
TrendOf(numerator, denominator) ==
    [trend |-> IF Abs(numerator) < 1000 * denominator THEN "stable"
               ELSE IF numerator > 0 THEN "rising" ELSE "falling",
     prediction |->
         IF Abs(numerator) < 1000 * denominator
         THEN "Weather conditions likely to remain stable"
         ELSE IF numerator > 0
         THEN IF numerator > 3000 * denominator
              THEN "Rapidly improving weather expected"
              ELSE "Generally improving weather expected"
         ELSE IF numerator < 0 - 3000 * denominator
              THEN "Rapidly deteriorating weather possible"
              ELSE "Weather may deteriorate",
     strength |-> Num(100 * MathRound(Abs(numerator), 100 * denominator))]

\* analyzePressureTrend(pressureData), for samples in thousandths of a hPa:
\* change is the mean of the recent window minus the mean of the earlier
\* one, and the recent mean minus itself when there is no earlier one. A
\* mean over a NaN sample is NaN and so is the change: every comparison
\* with it is false, which leaves the last branch, and the strength is NaN
analyzePressureTrend(pressureData) ==
    IF Len(pressureData) < 2
    THEN [trend |-> "insufficient data",
          prediction |-> "Cannot determine trend", strength |-> Num(0)]
    ELSE LET recent == Recent(pressureData)
             earlier == Earlier(pressureData)
         IN  IF SumIsNaN(recent) \/ SumIsNaN(earlier)
             THEN [trend |-> "falling",
                   prediction |-> "Weather may deteriorate",
                   strength |-> NaN]
             ELSE IF Len(earlier) > 0
             THEN TrendOf(SumOf(recent) * Len(earlier)
                          - SumOf(earlier) * Len(recent),
                          Len(recent) * Len(earlier))
             ELSE TrendOf(0, 1)


\* WeatherCalculations.calculate(input): the result its promise is fulfilled
\* with; the processingTime is its own measurement
weatherCalculate(input) ==
    LET done(data) ==
            [success |-> TRUE, data |-> data,
             metadata |-> [calculationType |-> input.type,
                           processingTime |-> 0]]
    IN  CASE input.type = "temperature_conversion" ->
                 done(convertTemperature(input.data))
          [] input.type = "heat_index" ->
                 done(calculateHeatIndex(input.data))
          [] input.type = "wind_chill" ->
                 done(calculateWindChill(input.data))
          [] input.type = "dew_point" ->
                 done(calculateDewPoint(input.data))
          [] input.type = "comfort_index" ->
                 done(calculateComfortIndex(input.data))
          [] input.type = "weather_summary" ->
                 done(generateWeatherSummary(input.data))
          [] input.type = "pressure_trend" ->
                 done(analyzePressureTrend(input.data.samples))
          [] OTHER ->
                 [success |-> FALSE, data |-> Null,
                  error |-> "Unsupported calculation type: " \o input.type,
                  metadata |-> [calculationType |-> input.type,
                                processingTime |-> 0]]

\* calculate(input) of the dispatcher from its call to its return, for a
\* registry that holds no engine but the weather engine
weatherDispatch(input) ==
    IF modulesGet(input.module) = Undefined
    THEN ModuleNotFound(input, now)
    ELSE IF ~weatherValidateInput(input)
    THEN InvalidInput(input, now)
    ELSE [weatherCalculate(input) EXCEPT !.metadata.processingTime = now - now]

\* before a calculation is put to the weather engine
NoWeatherCall == [phase |-> "none"]

(***************************************************************************)
(* State machine                                                           *)
(***************************************************************************)
IdleAll ==
    [state |-> "idle", calls |-> EmptyMap, results |-> EmptyMap,
     seen |-> EmptyMap, settled |-> EmptyMap]

\* one more stand-alone call may be started
CanSend == BagCardinality(inflight) < MaxInFlight

Send(call) == inflight (+) SetToBag({call})

\* an answered call that is sent again instead of being settled
AnsweredAndSentAgain(call) == inflight

Answered(call) == inflight (-) SetToBag({call})

\* the state after construction, but for the calculation put to the weather
\* engine
Constructed ==
    /\ enabled \in SUBSET Backends
    /\ hasWindow \in BOOLEAN
    /\ clients = initializeClients(enabled)
    /\ healthStatus = EmptyMap
    /\ storage = [k \in Keys |-> NoToken]
    /\ inflight = EmptyBag
    /\ all = IdleAll
    /\ last = Event("constructor", "-", "returned", "-", "-", "-", NoReq)
    /\ checked = {}
    /\ modules = initializeModules
    /\ now = 0
    /\ calc = IdleCalc
    /\ batch = IdleBatch
    /\ ret = NothingReturned

Init ==
    /\ Constructed
    /\ wx = NoWeatherCall

\* request(k, method, url) and its wrappers get/post/put/delete, up to the
\* await of client.request; the optional data and config arguments are left
\* out
Request(k, method, url) ==
    LET req == [method |-> method, url |-> url]
    IN  IF ~getClient(k)
        THEN /\ last' = Event("request", k, "settled", "rejected",
                              NotConfiguredError(k), "-", req)
             /\ UNCHANGED <<calcVars, enabled, hasWindow, clients, healthStatus,
                            storage, inflight, all, checked>>
        ELSE /\ CanSend
             /\ inflight' = Send([op |-> "request", key |-> k,
                                  method |-> method, url |-> url,
                                  Authorization |-> requestInterceptor(k)])
             /\ last' = Event("request", k, "sent", "-",
                              requestInterceptor(k), "-", req)
             /\ UNCHANGED <<calcVars, enabled, hasWindow, clients, healthStatus,
                            storage, all, checked>>

\* a request that marks its backend unhealthy when it fails
RequestCompleteMarksHealth(c, o) ==
    /\ BagIn(c, inflight)
    /\ c.op = "request"
    /\ LET r == requestSettle(c.key, c, o)
       IN  /\ storage' = storageAfterResponse(c.key, c, o)
           /\ inflight' = Answered(c)
           /\ healthStatus' = IF r.status = "rejected"
                              THEN healthStatusSet(c.key, FALSE)
                              ELSE healthStatus
           /\ last' = Event("request", c.key, "settled", r.status, r.value,
                            o, c)
    /\ UNCHANGED <<calcVars, enabled, hasWindow, clients, all, checked>>

\* the answer to an awaited request arrives: response interceptor, then the
\* rest of request
RequestComplete(c, o) ==
    /\ BagIn(c, inflight)
    /\ c.op = "request"
    /\ LET r == requestSettle(c.key, c, o)
       IN  /\ storage' = storageAfterResponse(c.key, c, o)
           /\ inflight' = Answered(c)
           /\ last' = Event("request", c.key, "settled", r.status, r.value,
                            o, c)
    /\ UNCHANGED <<calcVars, enabled, hasWindow, clients, healthStatus, all, checked>>

\* healthCheck(k) up to the await of its request
HealthCheck(k) ==
    LET req == [method |-> "GET", url |-> HealthEndpoint]
    IN  IF ~Truthy(backendConfig(k))
        THEN /\ last' = Event("healthCheck", k, "settled", "rejected",
                              NoConfigError(k), "-", NoReq)
             /\ UNCHANGED <<calcVars, enabled, hasWindow, clients, healthStatus,
                            storage, inflight, all, checked>>
        ELSE IF ~getClient(k)
        THEN /\ healthStatus' = healthStatusSet(k, FALSE)
             /\ checked' = checked \cup {k}
             /\ last' = Event("healthCheck", k, "settled", "rejected",
                              NotConfiguredError(k), "-", req)
             /\ UNCHANGED <<calcVars, enabled, hasWindow, clients, storage, inflight,
                            all>>
        ELSE /\ CanSend
             /\ inflight' = Send([op |-> "healthCheck", key |-> k,
                                  method |-> req.method, url |-> req.url,
                                  Authorization |-> requestInterceptor(k)])
             /\ last' = Event("healthCheck", k, "sent", "-",
                              requestInterceptor(k), "-", req)
             /\ UNCHANGED <<calcVars, enabled, hasWindow, clients, healthStatus,
                            storage, all, checked>>

\* a check whose answer sets the flag only when no earlier answer has set it
HealthCheckCompleteFirstWins(c, o) ==
    /\ BagIn(c, inflight)
    /\ c.op = "healthCheck"
    /\ LET hc == healthCheckSettle(requestSettle(c.key, c, o))
       IN  /\ storage' = storageAfterResponse(c.key, c, o)
           /\ healthStatus' = IF c.key \in DOMAIN healthStatus
                              THEN healthStatus
                              ELSE healthStatusSet(c.key, hc.health)
           /\ checked' = checked \cup {c.key}
           /\ inflight' = Answered(c)
           /\ last' = Event("healthCheck", c.key, "settled", hc.status,
                            hc.value, o, c)
    /\ UNCHANGED <<calcVars, enabled, hasWindow, clients, all>>

\* the answer to the request of a stand-alone healthCheck arrives
HealthCheckComplete(c, o) ==
    /\ BagIn(c, inflight)
    /\ c.op = "healthCheck"
    /\ LET hc == healthCheckSettle(requestSettle(c.key, c, o))
       IN  /\ storage' = storageAfterResponse(c.key, c, o)
           /\ healthStatus' = healthStatusSet(c.key, hc.health)
           /\ checked' = checked \cup {c.key}
           /\ inflight' = Answered(c)
           /\ last' = Event("healthCheck", c.key, "settled", hc.status,
                            hc.value, o, c)
    /\ UNCHANGED <<calcVars, enabled, hasWindow, clients, all>>

\* healthCheckAll up to its await: the callbacks run one after the other,
\* each up to the await of its request (or to its end for a key without a
\* client)
HealthCheckAll ==
    /\ all.state = "idle"
    /\ LET enabledBackends == {k \in Backends : k \in enabled}
           sent == {k \in enabledBackends : getClient(k)}
           failed == enabledBackends \ sent
           req == [method |-> "GET", url |-> HealthEndpoint]
           cb(k) == healthCheckAllCallback(
                        [status |-> "rejected",
                         value |-> NotConfiguredError(k)])
       IN  /\ all' = [state |-> "running",
                      calls |-> [k \in sent |->
                          [op |-> "healthCheck", key |-> k,
                           method |-> req.method, url |-> req.url,
                           Authorization |-> requestInterceptor(k)]],
                      results |-> [k \in {j \in failed : cb(j).hasEntry} |->
                                      cb(k).entry],
                      seen |-> [k \in failed |-> "noclient"],
                      settled |-> [k \in failed |-> cb(k).settled]]
           /\ healthStatus' = [k \in DOMAIN healthStatus \cup failed |->
                                  IF k \in failed THEN FALSE
                                  ELSE healthStatus[k]]
           /\ checked' = checked \cup failed
    /\ last' = Event("healthCheckAll", "-", "sent", "-",
                     [k \in {j \in Backends : j \in enabled /\ getClient(j)}
                        |-> requestInterceptor(k)], "-", NoReq)
    /\ UNCHANGED <<calcVars, enabled, hasWindow, clients, storage, inflight>>

\* the answer to the request of one backend's check inside healthCheckAll
\* arrives: response interceptor, rest of request, rest of healthCheck, rest
\* of the callback
HealthCheckAllChild(k, o) ==
    /\ all.state = "running"
    /\ k \in DOMAIN all.calls
    /\ LET c == all.calls[k]
           hc == healthCheckSettle(requestSettle(k, c, o))
           cb == healthCheckAllCallback(hc)
       IN  /\ storage' = storageAfterResponse(k, c, o)
           /\ healthStatus' = healthStatusSet(k, hc.health)
           /\ checked' = checked \cup {k}
           /\ all' = [all EXCEPT
                        !.calls = MapDelete(all.calls, k),
                        !.results = IF cb.hasEntry
                                    THEN MapSet(all.results, k, cb.entry)
                                    ELSE all.results,
                        !.seen = MapSet(all.seen, k, o),
                        !.settled = MapSet(all.settled, k, cb.settled)]
           /\ last' = Event("healthCheck", k, "settled", hc.status, hc.value,
                            o, c)
    /\ UNCHANGED <<calcVars, enabled, hasWindow, clients, inflight>>

\* an aggregate that returns only when every check succeeded
HealthCheckAllResolveWhenAllOk ==
    /\ all.state = "running"
    /\ DOMAIN all.calls = {}
    /\ \A k \in DOMAIN all.seen : all.seen[k] = "ok"
    /\ all' = IdleAll
    /\ last' = Event("healthCheckAll", "-", "settled",
                     allSettled(all.settled), all.results,
                     all.seen, NoReq)
    /\ UNCHANGED <<calcVars, enabled, hasWindow, clients, healthStatus, storage,
                   inflight, checked>>

\* every callback has settled: the await of Promise.allSettled returns and
\* healthCheckAll returns results
HealthCheckAllResolve ==
    /\ all.state = "running"
    /\ DOMAIN all.calls = {}
    /\ all' = IdleAll
    /\ last' = Event("healthCheckAll", "-", "settled",
                     allSettled(all.settled), all.results,
                     all.seen, NoReq)
    /\ UNCHANGED <<calcVars, enabled, hasWindow, clients, healthStatus, storage,
                   inflight, checked>>

IsBackendHealthy(k) ==
    /\ last' = Event("isBackendHealthy", k, "returned", "-",
                     isBackendHealthy(k), "-", NoReq)
    /\ UNCHANGED <<calcVars, enabled, hasWindow, clients, healthStatus, storage,
                   inflight, all, checked>>

GetHealthyBackends ==
    /\ last' = Event("getHealthyBackends", "-", "returned", "-",
                     getHealthyBackends, "-", NoReq)
    /\ UNCHANGED <<calcVars, enabled, hasWindow, clients, healthStatus, storage,
                   inflight, all, checked>>

SetAuthToken(k, token) ==
    /\ storage' = setAuthTokenStore(k, token)
    /\ last' = Event("setAuthToken", k, "returned", "-", token, "-", NoReq)
    /\ UNCHANGED <<calcVars, enabled, hasWindow, clients, healthStatus, inflight, all,
                   checked>>

ClearAuthToken(k) ==
    /\ storage' = clearAuthToken(k)
    /\ last' = Event("clearAuthToken", k, "returned", "-", "-", "-", NoReq)
    /\ UNCHANGED <<calcVars, enabled, hasWindow, clients, healthStatus, inflight, all,
                   checked>>

\* a refresh that rebuilds the clients and keeps the health flags
RefreshClientsKeepsHealth ==
    /\ clients' = initializeClients(enabled)
    /\ UNCHANGED healthStatus
    /\ checked' = {}
    /\ last' = Event("refreshClients", "-", "returned", "-", "-", "-", NoReq)
    /\ UNCHANGED <<calcVars, enabled, hasWindow, storage, inflight, all>>

RefreshClients ==
    /\ clients' = initializeClients(enabled)
    /\ healthStatus' = EmptyMap
    /\ checked' = {}
    /\ last' = Event("refreshClients", "-", "returned", "-", "-", "-", NoReq)
    /\ UNCHANGED <<calcVars, enabled, hasWindow, storage, inflight, all>>

Next ==
    \/ \E k \in Keys, m \in Methods, u \in Endpoints : Request(k, m, u)
    \/ \E c \in BagToSet(inflight), o \in Outcomes : RequestComplete(c, o)
    \/ \E k \in Keys : HealthCheck(k)
    \/ \E c \in BagToSet(inflight), o \in Outcomes :
            HealthCheckComplete(c, o)
    \/ HealthCheckAll
    \/ \E k \in Backends, o \in Outcomes : HealthCheckAllChild(k, o)
    \/ HealthCheckAllResolve
    \/ \E k \in Keys : IsBackendHealthy(k)
    \/ GetHealthyBackends
    \/ \E k \in TokenKeys, t \in Tokens : SetAuthToken(k, t)
    \/ \E k \in TokenKeys : ClearAuthToken(k)
    \/ RefreshClients

Spec == Init /\ [][Next]_vars

\* Spec with the scheduling the aggregate relies on: axios bounds every
\* request by the timeout of its client, so each request of a running
\* healthCheckAll is eventually answered, refused or timed out, and the
\* event loop eventually runs the continuation of a settled await
FairSpec ==
    /\ Spec
    /\ \A k \in Backends :
           WF_all(\E o \in Outcomes : HealthCheckAllChild(k, o))
    /\ WF_all(HealthCheckAllResolve)

(***************************************************************************)
(* Tokens replaced while a request is in flight: the requests, the health  *)
(* checks and the token operations, with two tokens to tell apart          *)
(***************************************************************************)
AuthTokens == {"T1", "T2"}

AuthNext ==
    \/ \E k \in Keys, m \in Methods, u \in Endpoints : Request(k, m, u)
    \/ \E c \in BagToSet(inflight), o \in Outcomes : RequestComplete(c, o)
    \/ \E k \in Keys : HealthCheck(k)
    \/ \E c \in BagToSet(inflight), o \in Outcomes :
            HealthCheckComplete(c, o)
    \/ \E k \in TokenKeys, t \in AuthTokens : SetAuthToken(k, t)
    \/ \E k \in TokenKeys : ClearAuthToken(k)

AuthSpec == Init /\ [][AuthNext]_vars

(***************************************************************************)
(* Health checks by key: the keys a caller may pass, backends or not       *)
(***************************************************************************)
CallerKeys == Keys \cup InheritedKeys

KeyNext ==
    \/ \E k \in CallerKeys : HealthCheck(k)
    \/ \E c \in BagToSet(inflight), o \in Outcomes :
            HealthCheckComplete(c, o)
    \/ \E k \in CallerKeys : IsBackendHealthy(k)
    \/ GetHealthyBackends
    \/ RefreshClients

KeySpec == Init /\ [][KeyNext]_vars

(***************************************************************************)
(* Health checks and what the backend reports: the answers include a 2xx   *)
(* whose payload says unhealthy                                            *)
(***************************************************************************)
HealthOutcomes == Outcomes \cup {Unhealthy200}

HealthNext ==
    \/ \E k \in Keys : HealthCheck(k)
    \/ \E c \in BagToSet(inflight), o \in HealthOutcomes :
            HealthCheckComplete(c, o)
    \/ HealthCheckAll
    \/ \E k \in Backends, o \in HealthOutcomes : HealthCheckAllChild(k, o)
    \/ HealthCheckAllResolve
    \/ \E k \in Keys : IsBackendHealthy(k)
    \/ RefreshClients

HealthSpec == Init /\ [][HealthNext]_vars

(***************************************************************************)
(* The weather query definitions, built over the health state              *)
(***************************************************************************)
DataQueries == {"currentWeather", "forecast", "alerts", "historical", "stats"}
QueryNames == DataQueries \cup {"health"}

\* definitions that all carry enabled: true
weatherQueriesAlwaysEnabled(name) ==
    [queryFn |-> name,
     retry |-> IF name \in {"currentWeather", "forecast"} THEN 3
               ELSE IF name = "health" THEN 1 ELSE 2,
     enabled |-> TRUE]

\* weatherQueries[name](...): the definition object it returns, without the
\* query key and the cache times; the health definition has no enabled
\* property
weatherQueries(name) ==
    IF name = "health"
    THEN [queryFn |-> name, retry |-> 1]
    ELSE [queryFn |-> name,
          retry |-> IF name \in {"currentWeather", "forecast"} THEN 3 ELSE 2,
          enabled |-> isBackendHealthy("weather")]

\* a caller builds the definition of one query
BuildQuery(name) ==
    /\ last' = Event("weatherQueries", name, "returned", "-",
                     weatherQueries(name), "-", NoReq)
    /\ UNCHANGED <<calcVars, enabled, hasWindow, clients, healthStatus, storage,
                   inflight, all, checked>>

QueryNext ==
    \/ \E k \in Keys : HealthCheck(k)
    \/ \E c \in BagToSet(inflight), o \in Outcomes :
            HealthCheckComplete(c, o)
    \/ RefreshClients
    \/ \E name \in QueryNames : BuildQuery(name)

QuerySpec == Init /\ [][QueryNext]_vars

(***************************************************************************)
(* The default retry policy of the query client, put to the failures the   *)
(* client manager raises                                                   *)
(***************************************************************************)
\* the largest number of earlier failures the policy is asked about
MaxFailures == 4

\* error?.response?.status
ResponseStatusOf(error) ==
    IF "response" \in DOMAIN error THEN error.response.status ELSE Undefined

\* defaultOptions.queries.retry(failureCount, error): whether the failed
\* call is made again; a comparison with undefined is false
retry(failureCount, error) ==
    LET status == ResponseStatusOf(error)
    IN  IF status # Undefined /\ status >= 400 /\ status < 500
        THEN FALSE
        ELSE failureCount < 3

\* a call of the client manager has just failed
CallFailed ==
    /\ last.op \in {"request", "healthCheck"}
    /\ last.phase = "settled"
    /\ last.status = "rejected"

\* the query client asks its policy about the failure just raised, after
\* failureCount earlier failures of the same query
RetryDecision(failureCount) ==
    /\ CallFailed
    /\ last' = Event("retry", last.key, "returned", "-",
                     [failureCount |-> failureCount,
                      again |-> retry(failureCount, last.value)],
                     last.outcome, NoReq)
    /\ UNCHANGED <<calcVars, enabled, hasWindow, clients, healthStatus, storage,
                   inflight, all, checked>>

RetryNext ==
    \/ \E k \in Keys, m \in Methods, u \in Endpoints : Request(k, m, u)
    \/ \E c \in BagToSet(inflight), o \in Outcomes : RequestComplete(c, o)
    \/ \E k \in Keys : HealthCheck(k)
    \/ \E c \in BagToSet(inflight), o \in Outcomes :
            HealthCheckComplete(c, o)
    \/ \E failureCount \in 0..MaxFailures : RetryDecision(failureCount)

RetrySpec == Init /\ [][RetryNext]_vars

(***************************************************************************)
(* State machine of the calculation layer                                  *)
(***************************************************************************)
\* the lists of inputs callers pass to batchCalculate
BatchInputs == UNION {[1..n -> Inputs] : n \in 0..MaxBatch}

\* no call of the calculation layer is awaiting an engine
CalcIdle == calc.state = "idle" /\ batch.state = "idle"

\* calculate(input) up to its await, or to its return when it does not
\* reach the engine's calculate
Calculate(input) ==
    /\ CalcIdle
    /\ LET call == calculateEnter(input)
       IN  IF IsSettled(call)
           THEN /\ calc' = IdleCalc
                /\ ret' = Returned("calculate", "settled",
                                   calculatePromise(call).status, <<call>>, call.result)
           ELSE /\ calc' = [state |-> "pending", call |-> call]
                /\ ret' = Returned("calculate", "awaiting", "-", <<call>>, "-")
    /\ UNCHANGED <<managerVars, wx, modules, now, batch>>

\* a calculate that goes on only once the weather backend is known to be
\* healthy
CalculateCompleteWhenHealthy ==
    /\ calc.state = "pending"
    /\ isBackendHealthy("weather")
    /\ LET call == calculateSettle(calc.call)
       IN  /\ calc' = IdleCalc
           /\ ret' = Returned("calculate", "settled",
                              calculatePromise(call).status, <<call>>,
                              call.result)
    /\ UNCHANGED <<managerVars, wx, modules, now, batch>>

\* the promise of the engine's calculate settles: the rest of calculate
CalculateComplete ==
    /\ calc.state = "pending"
    /\ LET call == calculateSettle(calc.call)
       IN  /\ calc' = IdleCalc
           /\ ret' = Returned("calculate", "settled",
                              calculatePromise(call).status, <<call>>,
                              call.result)
    /\ UNCHANGED <<managerVars, wx, modules, now, batch>>

\* a batch that takes its inputs from the last to the first
BatchCalculateReversed(inputs) ==
    /\ CalcIdle
    /\ LET calls == [i \in 1..Len(inputs) |->
                        calculateEnter(inputs[Len(inputs) + 1 - i])]
       IN  /\ batch' = [state |-> "running", inputs |-> inputs,
                        calls |-> calls]
           /\ ret' = Returned("batchCalculate", "awaiting", "-", calls, "-")
    /\ UNCHANGED <<managerVars, wx, modules, now, calc>>

\* batchCalculate(inputs) up to its await: inputs.map runs calculate on each
\* input in turn, each up to its await or its return
BatchCalculate(inputs) ==
    /\ CalcIdle
    /\ LET calls == [i \in 1..Len(inputs) |-> calculateEnter(inputs[i])]
       IN  /\ batch' = [state |-> "running", inputs |-> inputs,
                        calls |-> calls]
           /\ ret' = Returned("batchCalculate", "awaiting", "-", calls,
                              "-")
    /\ UNCHANGED <<managerVars, wx, modules, now, calc>>

\* the engine's promise of the i-th calculate of the batch settles
BatchItemComplete(i) ==
    /\ batch.state = "running"
    /\ i \in DOMAIN batch.calls
    /\ ~IsSettled(batch.calls[i])
    /\ LET call == calculateSettle(batch.calls[i])
       IN  /\ batch' = [batch EXCEPT !.calls[i] = call]
           /\ ret' = Returned("calculate", "settled",
                              calculatePromise(call).status, <<call>>,
                              call.result)
    /\ UNCHANGED <<managerVars, wx, modules, now, calc>>

\* a batch in which one failed calculation fails every element
BatchResolveFailFast ==
    /\ batch.state = "running"
    /\ \A i \in DOMAIN batch.calls : IsSettled(batch.calls[i])
    /\ batch' = IdleBatch
    /\ ret' = Returned("batchCalculate", "settled", "fulfilled", batch.calls,
                       [i \in DOMAIN batch.calls |->
                           IF \E j \in DOMAIN batch.calls :
                                  ~batch.calls[j].result.success
                           THEN batchMap([status |-> "rejected"])
                           ELSE batchMap(calculatePromise(batch.calls[i]))])
    /\ UNCHANGED <<managerVars, wx, modules, now, calc>>

\* every calculate of the batch has returned: the await of
\* Promise.allSettled returns and batchCalculate maps the settlements
BatchResolve ==
    /\ batch.state = "running"
    /\ \A i \in DOMAIN batch.calls : IsSettled(batch.calls[i])
    /\ batch' = IdleBatch
    /\ ret' = Returned("batchCalculate", "settled", "fulfilled", batch.calls,
                       [i \in DOMAIN batch.calls |->
                           batchMap(calculatePromise(batch.calls[i]))])
    /\ UNCHANGED <<managerVars, wx, modules, now, calc>>

\* a crossModuleCalculate that answers once both modules are registered
CrossModuleCalculateWhenRegistered(primaryModule, secondaryModule) ==
    /\ CalcIdle
    /\ ret' = IF {primaryModule, secondaryModule} \subseteq DOMAIN modules
              THEN Returned("crossModuleCalculate", "settled", "fulfilled",
                            <<>>,
                            [success |-> TRUE, data |-> Null,
                             metadata |-> [calculationType |-> "cross",
                                           processingTime |-> 0]])
              ELSE Returned("crossModuleCalculate", "settled", "rejected",
                            <<>>,
                            ErrorOf("Cross-module calculations not yet implemented"))
    /\ UNCHANGED <<managerVars, wx, modules, now, calc, batch>>

\* crossModuleCalculate(primaryModule, secondaryModule, calculation, data),
\* called while no other call of the layer is awaiting
CrossModuleCalculate(primaryModule, secondaryModule) ==
    /\ CalcIdle
    /\ ret' = Returned("crossModuleCalculate", "settled", "rejected", <<>>,
                       ErrorOf("Cross-module calculations not yet implemented"))
    /\ UNCHANGED <<managerVars, wx, modules, now, calc, batch>>

\* a registerModule that keeps the engine a name is already bound to
RegisterModuleIfAbsent(name, engine) ==
    /\ batch.state = "idle"
    /\ modules' = IF name \in DOMAIN modules THEN modules
                  ELSE MapSet(modules, name, engine)
    /\ ret' = Returned("registerModule", "returned", "-", <<>>,
                       [name |-> name, engine |-> engine])
    /\ UNCHANGED <<managerVars, wx, now, calc, batch>>

\* registerModule(name, module), called while no batch is running; ret keeps
\* its two arguments
RegisterModule(name, engine) ==
    /\ batch.state = "idle"
    /\ modules' = MapSet(modules, name, engine)
    /\ ret' = Returned("registerModule", "returned", "-", <<>>,
                       [name |-> name, engine |-> engine])
    /\ UNCHANGED <<managerVars, wx, now, calc, batch>>

\* time passes while a call awaits its engine
Tick ==
    /\ ~CalcIdle
    /\ now < MaxClock
    /\ now' = now + 1
    /\ UNCHANGED <<managerVars, wx, modules, calc, batch, ret>>

CalcInit ==
    /\ Init
    /\ enabled = Backends
    /\ hasWindow

CalcNext ==
    \/ \E input \in Inputs : Calculate(input)
    \/ CalculateComplete
    \/ \E inputs \in BatchInputs : BatchCalculate(inputs)
    \/ \E i \in 1..MaxBatch : BatchItemComplete(i)
    \/ BatchResolve
    \/ \E p, q \in ModuleNames : CrossModuleCalculate(p, q)
    \/ \E e \in Engines : RegisterModule("finance", e)
    \/ Tick

CalcSpec == CalcInit /\ [][CalcNext]_vars

(***************************************************************************)
(* Introspection of the registry (specification IntroSpec): modules are    *)
(* registered under any name and the registry is read, while no            *)
(* calculation is in progress.                                             *)
(***************************************************************************)
GetAllCalculations ==
    /\ CalcIdle
    /\ ret' = Returned("getAllCalculations", "returned", "-", <<>>,
                       getAllCalculations)
    /\ UNCHANGED <<managerVars, wx, modules, now, calc, batch>>

GetModuleCalculations(moduleName) ==
    /\ CalcIdle
    /\ ret' = Returned("getModuleCalculations", "returned", "-", <<>>,
                       [moduleName |-> moduleName,
                        returned |-> getModuleCalculations(moduleName)])
    /\ UNCHANGED <<managerVars, wx, modules, now, calc, batch>>

IsCalculationSupported(moduleName, calculationType) ==
    /\ CalcIdle
    /\ ret' = Returned("isCalculationSupported", "returned", "-", <<>>,
                       [moduleName |-> moduleName,
                        calculationType |-> calculationType,
                        returned |-> isCalculationSupported(moduleName,
                                                            calculationType)])
    /\ UNCHANGED <<managerVars, wx, modules, now, calc, batch>>

GetAvailableModules ==
    /\ CalcIdle
    /\ ret' = Returned("getAvailableModules", "returned", "-", <<>>,
                       getAvailableModules)
    /\ UNCHANGED <<managerVars, wx, modules, now, calc, batch>>

IntroNext ==
    \/ \E name \in RegisteredNames, e \in Engines : RegisterModule(name, e)
    \/ GetAllCalculations
    \/ \E m \in RegisteredNames : GetModuleCalculations(m)
    \/ \E m \in RegisteredNames, t \in AskedTypes :
           IsCalculationSupported(m, t)
    \/ GetAvailableModules

IntroSpec == CalcInit /\ [][IntroNext]_vars

(***************************************************************************)
(* Calculations next to the client manager (specification NetCalcSpec):    *)
(* calculate and batchCalculate over the weather engine run while the      *)
(* client manager sends requests and health checks.  Nothing obliges the   *)
(* network to answer.  The weather engine's calculate is an async function *)
(* without an await, so its promise is settled when it is returned and the *)
(* event loop runs the continuation of the dispatcher's await, and that of *)
(* Promise.allSettled once every element has settled.                      *)
(***************************************************************************)
\* the inputs that go to the weather engine, and the batches of them
NetInputs == {input \in Inputs : input.module = "weather"}
NetBatchInputs ==
    {inputs \in BatchInputs : \A i \in DOMAIN inputs : inputs[i] \in NetInputs}

\* the variables a calculation in progress is kept in
inProgress == <<calc, batch>>

NetCalcNext ==
    \/ \E k \in Backends, m \in Methods, u \in Endpoints : Request(k, m, u)
    \/ \E k \in Backends : HealthCheck(k)
    \/ \E c \in BagToSet(inflight), o \in Outcomes :
            HealthCheckComplete(c, o)
    \/ \E k \in TokenKeys, t \in Tokens : SetAuthToken(k, t)
    \/ \E input \in NetInputs : Calculate(input)
    \/ CalculateComplete
    \/ \E inputs \in NetBatchInputs : BatchCalculate(inputs)
    \/ \E i \in 1..MaxBatch : BatchItemComplete(i)
    \/ BatchResolve

NetCalcSpec ==
    /\ CalcInit
    /\ [][NetCalcNext]_vars
    /\ WF_inProgress(CalculateComplete)
    /\ \A i \in 1..MaxBatch : WF_inProgress(BatchItemComplete(i))
    /\ WF_inProgress(BatchResolve)

(***************************************************************************)
(* State machine of the weather engine (specification WeatherSpec)         *)
(***************************************************************************)
\* an input of the weather module
WeatherInput(type, data) == [module |-> "weather", type |-> type, data |-> data]

\* inputs of heat_index: temperatures on both sides of 80 F (26.67 C), with
\* one, two and three decimals, and NaN; humidities in and out of [0,100]
HeatIndexInputs ==
    {WeatherInput("heat_index",
                  ObjectData(t, h, Missing, Missing, Undefined, Undefined)) :
        t \in {Num(n) : n \in {0 - 5000, 0, 25000, 25050, 26600, 26660, 26666,
                               26667, 26700, 27000, 35000}} \cup {NaN},
        h \in {Num(n) : n \in {0 - 1, 0, 1, 50000, 99999, 100000, 100001}}
              \cup {NaN, StringValue}}

\* inputs of wind_chill: temperatures on both sides of 10 C, wind speeds on
\* both sides of 4.8 km/h (1.333 m/s), negative, and NaN
WindChillInputs ==
    {WeatherInput("wind_chill",
                  ObjectData(t, Missing, Missing, w, Undefined, Undefined)) :
        t \in {Num(n) : n \in {0 - 20000, 0, 9999, 10000, 10001, 15000}}
              \cup {NaN},
        w \in {Num(n) : n \in {0 - 1, 0, 1000, 1333, 1334, 5000, 30000}}
              \cup {NaN}}

\* inputs of temperature_conversion: every ordered pair of units, and
\* temperatures with up to three decimals, a stretch of them around 32
TemperatureStretch == 31980..32045
ConversionInputs ==
    {WeatherInput("temperature_conversion",
                  ObjectData(t, Missing, Missing, Missing, from, to)) :
        t \in {Num(n) : n \in TemperatureStretch
                               \cup {0 - 40000, 0 - 5, 0, 5, 25000, 98600,
                                     273150, 300000}}
              \cup {NaN},
        from \in Units, to \in Units}

\* inputs of comfort_index: temperatures, humidities and wind speeds on both
\* sides of every threshold of the score, out of range, and NaN
ComfortInputs ==
    {WeatherInput("comfort_index",
                  ObjectData(t, h, Num(1013000), w, Undefined, Undefined)) :
        t \in {Num(n) : n \in {0 - 30000, 11000, 11001, 16000, 16001, 19000,
                               19001, 21000, 22999, 23000, 60000}}
              \cup {NaN},
        h \in {Num(n) : n \in {0 - 20000, 0, 20000, 20001, 30000, 30001,
                               40000, 40001, 50000, 59999, 60000, 100000,
                               150000}}
              \cup {NaN},
        w \in {Num(n) : n \in {0 - 1000, 0, 499, 500, 501, 2999, 3000, 8000,
                               8001}}
              \cup {NaN}}

\* the series of pressure_trend: an earlier window and a recent window with
\* changes on both sides of 1 and of 3 hPa, longer series, whose first
\* sample is outside both windows, and shorter ones
EarlierWindows ==
    {<<1010000, 1011000, 1012000>>, <<1011000, 1011000, 1011000>>}
RecentWindows ==
    {<<1011000, 1011000, sample>> :
        sample \in {1001999, 1002000, 1008000, 1008001, 1010000, 1011000,
                    1012000, 1013999, 1014000, 1020000, 1020001, 1027000}}
    \cup {<<1015000, 1016000, 1018000>>}
PressureSeries ==
    {e \o r : e \in EarlierWindows, r \in RecentWindows}
    \cup {<<900000>> \o e \o r : e \in EarlierWindows, r \in RecentWindows}
    \cup {<<>>, <<1010000>>, <<1010000, 1020000>>,
          <<1000000, 1010000, 1020000>>,
          <<1000000, 1010000, 1020000, 1030000>>,
          <<1000000, 1000000, 1010000, 1020000, 1030000>>}
\* short series that hold a NaN
NaNSeries ==
    {<<NaN, Num(1013000)>>, <<Num(1013000), NaN>>,
     <<Num(1012000), NaN, Num(1013000)>>, <<NaN, NaN>>}
PressureInputs ==
    {WeatherInput("pressure_trend", ArrayData(Samples(series))) :
        series \in PressureSeries}
    \cup {WeatherInput("pressure_trend", ArrayData(series)) :
              series \in NaNSeries}

\* inputs for validateInput: every type and one that is not supported, the
\* weather module and another, with fields that are in range, out of range,
\* NaN, of another type and missing, and data that is an array or null
ValidationInputs ==
    {[module |-> m, type |-> type, data |-> data] :
        m \in ModuleNames,
        type \in SupportedCalculations \cup {"uv_index"},
        data \in
            {ObjectData(t, h, p, w, "celsius", to) :
                t \in {Num(25000), Missing},
                h \in {Num(0 - 1), Num(0), Num(50000), Num(100000),
                       Num(100001), Num(150000), NaN, StringValue, Missing},
                p \in {Num(1013000), Missing},
                w \in {Num(0 - 1), Num(0), Num(5000), StringValue},
                to \in {"kelvin", "rankine", Undefined}}
            \cup {ObjectData(Num(25000), Num(50000), Num(1013000), Num(5000),
                             "Celsius", "kelvin"),
                  NullData, ArrayData(<<>>),
                  ArrayData(Samples(<<1010000>>)),
                  ArrayData(Samples(<<1010000, 1012000>>))}}

\* inputs of dew_point: temperatures with one and two decimals, and the
\* humidities 0 and 100 with their neighbours
DewPointInputs ==
    {WeatherInput("dew_point",
                  ObjectData(t, h, Missing, Missing, Undefined, Undefined)) :
        t \in {Num(n) : n \in {0 - 5000, 0, 20000, 20040, 20060, 35500}},
        h \in {Num(n) : n \in {0 - 1, 0, 1, 50000, 99999, 100000, 100001}}}

WeatherInputs ==
    HeatIndexInputs \cup WindChillInputs \cup ConversionInputs
    \cup ComfortInputs \cup PressureInputs \cup ValidationInputs
    \cup DewPointInputs

\* the dispatcher's calculate(input) on the drawn input: what validateInput
\* says of it and what calculate returns
WeatherCalculate ==
    /\ wx.phase = "input"
    /\ wx' = [phase |-> "returned", input |-> wx.input,
              valid |-> weatherValidateInput(wx.input),
              answer |-> weatherDispatch(wx.input)]
    /\ UNCHANGED <<managerVars, modules, now, calc, batch, ret>>

\* the caller converts the temperature it got back into the unit it started
\* from, with a second calculate
ConvertBack ==
    /\ wx.phase = "returned"
    /\ wx.input.type = "temperature_conversion"
    /\ wx.answer.success
    /\ wx' = [phase |-> "converted back", input |-> wx.input,
              valid |-> wx.valid, answer |-> wx.answer,
              back |-> weatherDispatch(
                  [module |-> wx.input.module, type |-> wx.input.type,
                   data |-> ObjectData(wx.answer.data.convertedTemperature,
                                       Missing, Missing, Missing,
                                       wx.input.data.toUnit,
                                       wx.input.data.fromUnit)])]
    /\ UNCHANGED <<managerVars, modules, now, calc, batch, ret>>

WeatherInit ==
    /\ Constructed
    /\ enabled = Backends
    /\ hasWindow
    /\ wx \in {[phase |-> "input", input |-> input] : input \in WeatherInputs}

WeatherNext ==
    \/ WeatherCalculate
    \/ ConvertBack
    \/ /\ RegisterModule("finance", "weatherCalculations")
       /\ wx.phase = "input"

WeatherSpec == WeatherInit /\ [][WeatherNext]_vars

(***************************************************************************)
(* Properties of the client manager                                        *)
(***************************************************************************)
IsApiError(v) == DOMAIN v = {"message", "status", "code", "details"}

\* the flag of k in a health map: "absent" when the map has no entry
HealthEntry(h, k) ==
    IF k \in DOMAIN h THEN (IF h[k] THEN "true" ELSE "false") ELSE "absent"

AllSettled == last.op = "healthCheckAll" /\ last.phase = "settled"

\* C1: healthCheckAll never rejects; whatever the outcomes of the backends'
\* checks, it resolves, and the mapping it resolves with has exactly the
\* enabled backends as its keys.
C1_HealthCheckAllNeverRejects ==
    AllSettled =>
        /\ last.status = "resolved"
        /\ DOMAIN last.value = enabled

\* a healthCheckAll over two enabled backends has resolved after one check
\* timed out and the other succeeded
C1_Witness ==
    /\ AllSettled
    /\ enabled = Backends
    /\ last.outcome["weather"] = "timeout"
    /\ last.outcome["finance"] = "ok"
    /\ DOMAIN last.value = Backends

\* the check of backend k inside the running healthCheckAll completes
ChildCompletes(k) ==
    /\ all.state = "running"
    /\ k \in DOMAIN all.calls
    /\ k \notin DOMAIN all'.calls

C2_ChildStep ==
    \A k \in Backends :
        ChildCompletes(k) =>
            /\ k \in DOMAIN healthStatus'
            /\ healthStatus'[k] = (all'.seen[k] = "ok")
            /\ k \in DOMAIN all'.results
            /\ IF all'.seen[k] = "ok"
               THEN all'.results[k] = Payload(k)
               ELSE /\ IsApiError(all'.results[k])
                    /\ all'.results[k].details.backend = k
            /\ \A j \in Keys \ {k} :
                   HealthEntry(healthStatus', j) = HealthEntry(healthStatus, j)
            /\ \A j \in Backends \ {k} :
                   /\ j \in DOMAIN all'.results <=> j \in DOMAIN all.results
                   /\ j \in DOMAIN all.results =>
                          all'.results[j] = all.results[j]

C2_ResultsAreOwn ==
    AllSettled =>
        \A k \in enabled :
            /\ k \in DOMAIN last.value
            /\ IF last.outcome[k] = "ok"
               THEN last.value[k] = Payload(k)
               ELSE /\ IsApiError(last.value[k])
                    /\ last.value[k].details.backend = k

\* C2: no cross-contamination in healthCheckAll.  Whatever the order in
\* which the checks complete, the step that completes the check of backend k
\* sets the flag of k to "its own request succeeded", stores the payload of
\* k or the error of k as the entry of k, and leaves the flag and the entry
\* of every other backend as they were; the resolved mapping holds for every
\* enabled backend the payload or error of that backend's own outcome.
C2_NoCrossContamination == [][C2_ChildStep]_vars /\ []C2_ResultsAreOwn

\* healthCheckAll has resolved with exactly one failed backend: its flag is
\* false and its entry an error, the other's flag is true and its entry its
\* own payload
C2_Witness ==
    /\ AllSettled
    /\ enabled = Backends
    /\ last.outcome["finance"] = "timeout"
    /\ last.outcome["weather"] = "ok"
    /\ IsApiError(last.value["finance"])
    /\ last.value["weather"] = Payload("weather")
    /\ HealthEntry(healthStatus, "finance") = "false"
    /\ HealthEntry(healthStatus, "weather") = "true"

\* a healthCheck of a backend with a live client has settled
HealthCheckSettled ==
    /\ last.op = "healthCheck"
    /\ last.phase = "settled"
    /\ last.outcome # "-"

\* C3: when healthCheck(k) of a backend with a live client completes, then
\* if the GET succeeded the flag of k is true and the call returns the
\* payload, and if it failed the flag of k is false and the call rejects
\* with an error of the normalized shape for k.
C3_HealthCheckSetsFlag ==
    (HealthCheckSettled /\ last.key \in clients) =>
        /\ last.key \in DOMAIN healthStatus
        /\ IF last.outcome = "ok"
           THEN /\ healthStatus[last.key] = TRUE
                /\ last.status = "resolved"
                /\ last.value = Payload(last.key)
           ELSE /\ healthStatus[last.key] = FALSE
                /\ last.status = "rejected"
                /\ IsApiError(last.value)
                /\ last.value.details.backend = last.key

\* a healthCheck of a backend that was healthy has just failed
C3_Witness ==
    /\ HealthCheckSettled
    /\ last.key \in clients
    /\ last.outcome = "refused"
    /\ last.status = "rejected"
    /\ healthStatus[last.key] = FALSE
    /\ \E j \in clients \ {last.key} : isBackendHealthy(j)

C4_Step ==
    /\ \A k \in Keys :
           HealthEntry(healthStatus', k) # HealthEntry(healthStatus, k) =>
               \/ /\ last'.op = "healthCheck"
                  /\ last'.phase = "settled"
                  /\ last'.key = k
               \/ last'.op = "refreshClients"
    /\ last'.op \in {"isBackendHealthy", "getHealthyBackends"} =>
           UNCHANGED <<enabled, hasWindow, clients, healthStatus, storage,
                       inflight, all, checked>>

\* C4: the health flag of backend k changes only in a step that completes a
\* healthCheck(k) or in refreshClients; requests, token operations, reads
\* and the health checks of other backends leave it as it is, and the reads
\* isBackendHealthy and getHealthyBackends change nothing at all (they send
\* nothing).
C4_HealthFlagFrame == [][C4_Step]_vars

\* a request to a healthy backend has just failed and the backend is still
\* reported healthy
C4_Witness ==
    /\ last.op = "request"
    /\ last.phase = "settled"
    /\ last.status = "rejected"
    /\ last.key \in clients
    /\ isBackendHealthy(last.key)

\* C5: in every reachable state the client map holds a client for exactly
\* the backends whose configuration has enabled = true.
C5_ClientsAreEnabled == clients = enabled

\* refreshClients has run with one backend enabled and one disabled
C5_Witness ==
    /\ last.op = "refreshClients"
    /\ enabled = {"weather"}
    /\ clients = {"weather"}
    /\ storage["weather"] = "T1"

C6_Step ==
    (last'.op = "request" /\ last'.key \notin enabled) =>
        /\ last'.phase = "settled"
        /\ last'.status = "rejected"
        /\ last'.value = NotConfiguredError(last'.key)
        /\ UNCHANGED <<clients, healthStatus, storage, inflight, all>>

\* C6: a request (get/post/put/delete) for a key that is unknown or disabled
\* fails with the not-configured error, sends nothing, and leaves the client
\* map, the health state and the tokens unchanged.
C6_RequestNotConfigured == [][C6_Step]_vars

\* a request for a disabled backend failed while another call was in flight
C6_Witness ==
    /\ last.op = "request"
    /\ last.key \in Backends \ enabled
    /\ last.status = "rejected"
    /\ BagCardinality(inflight) = 1
    /\ storage["weather"] = "T1"

\* C7: a disabled or unknown backend is never reported healthy, every
\* backend reported healthy has a live client, and a backend whose health
\* check has not completed since construction or the last refresh is
\* reported unhealthy.
C7_HealthyImpliesLive ==
    \A k \in Keys :
        /\ k \notin enabled =>
               /\ ~isBackendHealthy(k)
               /\ k \notin getHealthyBackends
        /\ isBackendHealthy(k) => k \in clients
        /\ k \in getHealthyBackends => k \in clients
        /\ k \notin checked =>
               /\ ~isBackendHealthy(k)
               /\ k \notin getHealthyBackends

\* a disabled backend was checked and is reported unhealthy, next to a
\* healthy one and to backends never checked
C7_Witness ==
    /\ \E k \in Backends \ enabled : k \in checked /\ ~isBackendHealthy(k)
    /\ \E j \in enabled : isBackendHealthy(j)

\* C8: every error request raises for a backend with a live client has the
\* normalized shape and keeps the facts of the failure: the HTTP status of
\* the answer, the backend key, the url and the method of the failed request.
C8_RequestErrorKeepsFacts ==
    (/\ last.op = "request"
     /\ last.phase = "settled"
     /\ last.status = "rejected"
     /\ last.key \in clients) =>
        /\ IsApiError(last.value)
        /\ last.outcome = "http401" => last.value.status = 401
        /\ last.value.details.backend = last.key
        /\ last.value.details.url = last.url
        /\ last.value.details.method = last.method

C9_Step ==
    (/\ last'.op \in {"request", "healthCheck"}
     /\ last'.phase = "settled"
     /\ last'.outcome = "http401") =>
        /\ storage'[last'.key] = NoToken
        /\ \A j \in Keys \ {last'.key} : storage'[j] = storage[j]
        /\ last'.op = "request" => healthStatus' = healthStatus

\* C9: when the answer to a request to backend k is a 401, the stored token
\* of k is cleared, the tokens of the other backends are unchanged, and a
\* plain request that got the 401 changes no health flag.
C9_UnauthorizedEvictsToken == [][C9_Step]_vars

\* a plain request to a healthy backend that holds a token was answered 401:
\* the token is gone, the backend is still reported healthy
C9_Witness ==
    /\ last.op = "request"
    /\ last.phase = "settled"
    /\ last.outcome = "http401"
    /\ last.key \in TokenKeys
    /\ hasWindow
    /\ storage[last.key] = NoToken
    /\ isBackendHealthy(last.key)

\* the state right after a request was sent
Sent == last.phase = "sent" /\ last.op \in {"request", "healthCheck"}
AllSent == last.phase = "sent" /\ last.op = "healthCheckAll"

C10_Header ==
    /\ Sent =>
           /\ last.value # NoHeader <=> storage[last.key] \notin {NoToken, ""}
           /\ last.value # NoHeader =>
                  last.value = "Bearer " \o storage[last.key]
    /\ AllSent =>
           \A k \in DOMAIN last.value :
               /\ last.value[k] # NoHeader <=> storage[k] \notin {NoToken, ""}
               /\ last.value[k] # NoHeader =>
                      last.value[k] = "Bearer " \o storage[k]

C10_TokenStep ==
    last'.op \in {"setAuthToken", "clearAuthToken"} =>
        /\ \A j \in Keys \ {last'.key} :
               requestInterceptor(j)' = requestInterceptor(j)
        /\ inflight' = inflight
        /\ all' = all

InFlightCount == BagCardinality(inflight) + Cardinality(DOMAIN all.calls)

C11_Step ==
    /\ (last'.op \in {"request", "healthCheck"} /\ last'.phase = "sent") =>
           InFlightCount' = InFlightCount + 1
    /\ (last'.op = "healthCheckAll" /\ last'.phase = "sent") =>
           InFlightCount' = InFlightCount + Cardinality(DOMAIN last'.value)
    /\ (last'.op \in {"request", "healthCheck"} /\ last'.phase = "settled") =>
           /\ InFlightCount' =
                  IF last'.outcome \in Outcomes THEN InFlightCount - 1
                  ELSE InFlightCount
           /\ last'.outcome \in Outcomes \ {"ok"} =>
                  /\ last'.status = "rejected"
                  /\ IsApiError(last'.value)
                  /\ last'.value.details.backend = last'.key

\* C11: the client manager never retries.  The step that starts a request
\* or a healthCheck puts exactly one network request in flight (healthCheckAll
\* one for each backend it checks); the step in
\* which the answer arrives takes that request out of flight and puts none
\* in, and when the answer is a timeout or another failure the call rejects
\* with the normalized error of its backend.
C11_NeverRetries == [][C11_Step]_vars

\* a request has been rejected after its only network request timed out,
\* and nothing is in flight
C11_Witness ==
    /\ last.op = "request"
    /\ last.phase = "settled"
    /\ last.outcome = "timeout"
    /\ last.status = "rejected"
    /\ InFlightCount = 0


\* C12: healthCheckAll eventually resolves.  Given that every request in
\* flight is eventually answered, refused or timed out, a healthCheckAll
\* that was started always returns, whatever the outcomes of its backends:
\* a backend whose request times out does not keep the results of the
\* others from being returned.
C12_HealthCheckAllResolves == (all.state = "running") ~> AllSettled

\* a healthCheckAll has returned the payload of one backend after the
\* request to the other one timed out first
C12_Witness ==
    /\ AllSettled
    /\ last.status = "resolved"
    /\ enabled = Backends
    /\ last.outcome["weather"] = "timeout"
    /\ last.value["finance"] = Payload("finance")
    /\ HealthEntry(healthStatus, "weather") = "false"


C13_Step ==
    last'.op = "refreshClients" =>
        /\ clients' = enabled
        /\ healthStatus' = EmptyMap
        /\ \A k \in Keys : ~isBackendHealthy(k)'
        /\ getHealthyBackends' = {}
        /\ storage' = storage

\* C13: refreshClients resets the manager to its freshly initialized state.
\* Right after it returns the client map holds exactly the enabled
\* backends, the health state is empty (isBackendHealthy is false for every
\* key, getHealthyBackends is empty), and the stored tokens are what they
\* were before the call.
C13_RefreshResets == [][C13_Step]_vars

\* refreshClients has just returned while a healthCheckAll is running whose
\* check of weather had already succeeded (and set its flag): no flag is
\* left, the token of weather is still stored
C13_Witness ==
    /\ last.op = "refreshClients"
    /\ all.state = "running"
    /\ "weather" \in DOMAIN all.seen
    /\ all.seen["weather"] = "ok"
    /\ healthStatus = EmptyMap
    /\ clients = enabled
    /\ storage["weather"] = "T1"


(***************************************************************************)
(* Properties of the calculation layer                                     *)
(***************************************************************************)
\* a calculate call, stand-alone or of a batch, has just returned
CalculateReturned == ret.op = "calculate" /\ ret.phase = "settled"

\* the engine raised an exception in the call: its validateInput threw, or
\* its calculate was reached and rejected
EngineRaised(call) ==
    /\ call.engine # Undefined
    /\ LET v == validateInput(call.engine, call.input)
       IN  \/ v.threw
           \/ /\ v.returned
              /\ engineCalculate(call.engine, call.input).rejected

\* the exception the engine raised in the call
Thrown(call) ==
    LET v == validateInput(call.engine, call.input)
    IN  IF v.threw THEN v.error
        ELSE engineCalculate(call.engine, call.input).error

\* v has the shape of a CalculationResult
IsCalculationResult(v) ==
    /\ {"success", "data"} \subseteq DOMAIN v
    /\ DOMAIN v \subseteq {"success", "data", "error", "metadata"}
    /\ v.success \in BOOLEAN

\* the claim as stated: the error of the result is the message of whatever
\* the engine raised
C14_ErrorIsExceptionMessage ==
    CalculateReturned =>
        /\ ret.status = "fulfilled"
        /\ IsCalculationResult(ret.value)
        /\ EngineRaised(ret.calls[1]) =>
               /\ ret.value.success = FALSE
               /\ ret.value.data = Null
               /\ ret.value.error = Thrown(ret.calls[1]).message

\* C14 (amended): calculate never throws or rejects.  For every input and
\* every engine the promise is fulfilled with a CalculationResult; when the
\* engine's validateInput or calculate raises, the result has success=false
\* and data=null, and its error is the message of the exception when the
\* exception is an Error and "Unknown error occurred" when it is any other
\* value.
C14_CalculateNeverRejects ==
    CalculateReturned =>
        /\ ret.status = "fulfilled"
        /\ IsCalculationResult(ret.value)
        /\ EngineRaised(ret.calls[1]) =>
               /\ ret.value.success = FALSE
               /\ ret.value.data = Null
               /\ ret.value.error =
                      IF instanceofError(Thrown(ret.calls[1]))
                      THEN Thrown(ret.calls[1]).message
                      ELSE "Unknown error occurred"

\* calculate has returned the failure of an engine whose calculate rejected
\* with an Error
C14_Witness ==
    /\ CalculateReturned
    /\ ret.calls[1].engine = "rejectingEngine"
    /\ ret.status = "fulfilled"
    /\ ret.value.success = FALSE
    /\ ret.value.data = Null
    /\ ret.value.error = "engine failed"


\* an operation of the calculation layer has just settled
CalcOperationSettled ==
    /\ ret.op \in {"calculate", "batchCalculate", "crossModuleCalculate"}
    /\ ret.phase = "settled"

\* C15: no public operation of the calculation layer raises to its caller:
\* the promise of calculate, batchCalculate and crossModuleCalculate is
\* never rejected, and what it is fulfilled with is a CalculationResult (a
\* list of them for batchCalculate).
C15_NoOperationRaises ==
    CalcOperationSettled =>
        /\ ret.status = "fulfilled"
        /\ IF ret.op = "batchCalculate"
           THEN \A i \in DOMAIN ret.value : IsCalculationResult(ret.value[i])
           ELSE IsCalculationResult(ret.value)


C16_Step ==
    (now' = now /\ ret'.op = "calculate" /\ ret'.phase = "settled") =>
        /\ "metadata" \in DOMAIN ret'.value
        /\ "processingTime" \in DOMAIN ret'.value.metadata
        /\ ret'.value.metadata.processingTime >= 0
        /\ ret'.value.metadata.processingTime =
               now' - ret'.calls[1].startTime

\* C16: every result calculate returns, on every path and whatever metadata
\* the engine set or omitted, carries metadata.processingTime, and that
\* value is non-negative and is the time from the entry of the call to the
\* step in which it returns.
C16_ProcessingTimeIsMeasured == [][C16_Step]_vars


\* the calculate calls the last operation made or completed
CallsMade ==
    IF ret.op \in {"calculate", "batchCalculate"}
    THEN {ret.calls[i] : i \in DOMAIN ret.calls}
    ELSE {}

\* C17: the dispatcher validates before it computes.  In every calculate
\* call on a registered module the first call on the engine is
\* validateInput, the engine's calculate is called after it and only when
\* validateInput returned true; when it returned false the call made no
\* other call on the engine and its result is success=false with the error
\* that names the type and the module.
C17_ValidatesBeforeComputing ==
    \A call \in CallsMade :
        call.engine # Undefined =>
            LET v == validateInput(call.engine, call.input)
            IN  /\ Len(call.calls) >= 1
                /\ call.calls[1] = "validateInput"
                /\ (\E i \in DOMAIN call.calls : call.calls[i] = "calculate")
                       <=> (~v.threw /\ v.returned)
                /\ \A i \in DOMAIN call.calls :
                       call.calls[i] = "calculate" => i = 2
                /\ (~v.threw /\ ~v.returned) =>
                       /\ call.calls = <<"validateInput">>
                       /\ IsSettled(call)
                       /\ call.result.success = FALSE
                       /\ call.result.data = Null
                       /\ call.result.error =
                              "Invalid input for calculation '"
                              \o call.input.type \o "' in module '"
                              \o call.input.module \o "'"

\* calculate has returned the InvalidInput failure for an input the weather
\* engine does not accept; the engine's calculate was not called
C17_Witness ==
    /\ CalculateReturned
    /\ ret.calls[1].engine = "weatherCalculations"
    /\ ret.calls[1].input.data = "invalid"
    /\ ret.calls[1].calls = <<"validateInput">>
    /\ ret.value.success = FALSE
    /\ ret.value.error =
           "Invalid input for calculation 'heat_index' in module 'weather'"


C18_Step ==
    (now' = now /\ ret'.op \in {"calculate", "batchCalculate"}) =>
        \A i \in DOMAIN ret'.calls :
            LET call == ret'.calls[i]
            IN  call.input.module \notin DOMAIN modules =>
                    /\ IsSettled(call)
                    /\ call.result.success = FALSE
                    /\ call.result.data = Null
                    /\ call.result.error =
                           "Module '" \o call.input.module \o "' not found"
                    /\ call.calls = <<>>
                    /\ ret'.op = "calculate" =>
                           /\ ret'.phase = "settled"
                           /\ ret'.status = "fulfilled"
                           /\ ret'.value = call.result
                    /\ modules' = modules

\* C18: calculate on an input whose module is not in the registry returns
\* success=false, data=null and the error that names the module, calls
\* neither validateInput nor calculate of any engine, and leaves the
\* registry as it was.
C18_ModuleNotFound == [][C18_Step]_vars

\* calculate has returned the failure for module finance, which is not
\* registered
C18_Witness ==
    /\ CalculateReturned
    /\ ret.calls[1].input.module = "finance"
    /\ "finance" \notin DOMAIN modules
    /\ ret.calls[1].calls = <<>>
    /\ ret.value.success = FALSE
    /\ ret.value.error = "Module 'finance' not found"


\* the step in which batchCalculate returns
BatchReturns ==
    /\ batch.state = "running"
    /\ ret'.op = "batchCalculate"
    /\ ret'.phase = "settled"

\* the result is the one calculate gives for this input: it carries the type
\* of the input, the data computed from the input when it succeeded, and
\* the name of the module when the module is not registered
IsResultOf(result, input) ==
    /\ "metadata" \in DOMAIN result =>
           result.metadata.calculationType = input.type
    /\ result.success => result.data = EngineData(input)
    /\ input.module \notin DOMAIN modules <=>
           (/\ ~result.success
            /\ result.error = "Module '" \o input.module \o "' not found")

C19_Step ==
    BatchReturns =>
        /\ ret'.status = "fulfilled"
        /\ Len(ret'.value) = Len(batch.inputs)
        /\ \A i \in 1..Len(batch.inputs) :
               /\ batch.calls[i].input = batch.inputs[i]
               /\ ret'.value[i] = batch.calls[i].result
               /\ IsResultOf(ret'.value[i], batch.inputs[i])

\* C19: batchCalculate preserves positions.  For every list of inputs and
\* every order in which the calculations return, the list it returns is as
\* long as the list of inputs and its i-th element is the result that the
\* calculate call made for the i-th input returned.
C19_BatchPreservesPositions == [][C19_Step]_vars

\* a batch of three inputs whose second names the unregistered module
\* finance has returned three results, only the second a failure, which
\* names finance; the third calculation returned before the first
C19_Witness ==
    /\ ret.op = "batchCalculate"
    /\ ret.phase = "settled"
    /\ Len(ret.value) = 3
    /\ ret.calls[2].input.module = "finance"
    /\ ret.value[1].success
    /\ ~ret.value[2].success
    /\ ret.value[2].error = "Module 'finance' not found"
    /\ ret.value[3].success
    /\ ret.value[1].metadata.processingTime = 1
    /\ ret.value[3].metadata.processingTime = 0


\* result.error, Undefined when the result has none
ErrorField(result) ==
    IF "error" \in DOMAIN result THEN result.error ELSE Undefined

C20_Step ==
    BatchReturns =>
        \A i \in 1..Len(batch.inputs) :
            LET alone == calculateAlone(batch.inputs[i])
            IN  /\ ret'.value[i].success = alone.success
                /\ ret'.value[i].data = alone.data
                /\ ErrorField(ret'.value[i]) = ErrorField(alone)

\* C20: the items of a batch are independent.  The success flag, the data
\* and the error of the i-th element batchCalculate returns are those
\* calculate returns for the i-th input when run alone against the same
\* registry, whatever the other inputs are and whether or not the engine of
\* another input throws.
C20_BatchItemsIndependent == [][C20_Step]_vars

\* a batch has returned the result of the weather engine for its first
\* input next to the failure of the second, whose engine rejected
C20_Witness ==
    /\ ret.op = "batchCalculate"
    /\ ret.phase = "settled"
    /\ Len(ret.value) = 2
    /\ ret.calls[2].engine = "rejectingEngine"
    /\ ret.value[2].success = FALSE
    /\ ret.value[2].error = "engine failed"
    /\ ret.value[1].success
    /\ ret.value[1].data = "heat_index(valid)"


C21_Step ==
    ret'.op = "crossModuleCalculate" =>
        /\ ret'.phase = "settled"
        /\ ret'.status = "rejected"
        /\ instanceofError(ret'.value)
        /\ ret'.value.message =
               "Cross-module calculations not yet implemented"
        /\ ret'.calls = <<>>
        /\ UNCHANGED <<managerVars, wx, modules, now, calc, batch>>

\* C21: crossModuleCalculate never succeeds.  For all arguments and every
\* state of the registry its promise is rejected with the Error
\* "Cross-module calculations not yet implemented"; the call makes no
\* calculate call on any engine and leaves the registry, the clock, the
\* pending calls and the state of the client manager as they were.
C21_CrossModuleAlwaysFails == [][C21_Step]_vars

\* crossModuleCalculate has been rejected while both of its modules were
\* registered
C21_Witness ==
    /\ ret.op = "crossModuleCalculate"
    /\ ret.status = "rejected"
    /\ {"weather", "finance"} \subseteq DOMAIN modules
    /\ modules["finance"] = "weatherCalculations"


\* the calculate calls that are awaiting their engine
PendingCalls ==
    (IF calc.state = "pending" THEN {calc.call} ELSE {})
    \cup (IF batch.state = "running"
          THEN {batch.calls[i] : i \in {j \in DOMAIN batch.calls :
                                            ~IsSettled(batch.calls[j])}}
          ELSE {})

C22_Step ==
    /\ modules' # modules => ret'.op = "registerModule"
    /\ ret'.op = "registerModule" =>
           /\ ret'.value.name \in DOMAIN modules'
           /\ modules'[ret'.value.name] = ret'.value.engine
           /\ DOMAIN modules' = DOMAIN modules \cup {ret'.value.name}
           /\ \A m \in DOMAIN modules :
                  m # ret'.value.name => modules'[m] = modules[m]
    /\ (CalcIdle /\ ret'.op \in {"calculate", "batchCalculate"}) =>
           \A i \in DOMAIN ret'.calls :
               /\ ret'.calls[i].engine = modulesGet(ret'.calls[i].input.module)
               /\ ret'.calls[i].engine = Undefined =>
                      ret'.calls[i].calls = <<>>
    /\ (~CalcIdle /\ now' = now /\ ret'.op = "calculate") =>
           \E call \in PendingCalls :
               /\ ret'.calls[1].input = call.input
               /\ ret'.calls[1].engine = call.engine
               /\ ret'.calls[1].calls = call.calls

\* C22: registerModule(name, engine) adds or overwrites exactly one binding.
\* After it name is bound to engine and every other name is bound as before;
\* no other operation changes the registry; every calculate call, alone or
\* of a batch, goes to the engine its module name is bound to when the call
\* is made, so never to an engine that was replaced before; and the
\* completion of a call that was awaiting makes no further call on an
\* engine.
C22_RegisterModuleBindsOne == [][C22_Step]_vars

\* finance has been registered again, with another engine, while a calculate
\* call on the engine it replaced is still awaiting
C22_Witness ==
    /\ ret.op = "registerModule"
    /\ ret.value.name = "finance"
    /\ ret.value.engine = "bareEngine"
    /\ modules["finance"] = "bareEngine"
    /\ calc.state = "pending"
    /\ calc.call.engine = "rejectingEngine"


\* the operations that read the registry
IntrospectionOps ==
    {"getAllCalculations", "getModuleCalculations", "isCalculationSupported",
     "getAvailableModules"}

\* isCalculationSupported and getModuleCalculations agree, an unregistered
\* module has no calculations, and no introspection changes the registry or
\* calls an engine's calculate
IntrospectionIsPure ==
    ret'.op \in IntrospectionOps =>
        /\ ret'.calls = <<>>
        /\ UNCHANGED <<managerVars, wx, modules, now, calc, batch>>
        /\ ret'.op = "isCalculationSupported" =>
               ret'.value.returned =
                   includes(getModuleCalculations(ret'.value.moduleName),
                            ret'.value.calculationType)
        /\ ret'.op = "getModuleCalculations" =>
               (ret'.value.moduleName \notin DOMAIN modules =>
                    ret'.value.returned = <<>>)

C23_Step ==
    /\ IntrospectionIsPure
    /\ ret'.op = "getAllCalculations" =>
           DOMAIN ret'.value = getAvailableModules

\* C23: introspection is a pure, consistent view of the registry.  For
\* every module m and type t, isCalculationSupported(m, t) holds exactly
\* when t is in getModuleCalculations(m); getModuleCalculations of an
\* unregistered module is empty; the keys of getAllCalculations are
\* getAvailableModules; and none of these calls changes the registry or
\* calls an engine's calculate.
C23_IntrospectionConsistent == [][C23_Step]_vars

\* what does hold of the four calls, for every registry
C23_IntrospectionPure == [][IntrospectionIsPure]_vars

\* getAllCalculations has returned an object without a key for a registered
\* module
C23_Witness ==
    /\ ret.op = "getAllCalculations"
    /\ "__proto__" \in DOMAIN modules
    /\ "__proto__" \notin DOMAIN ret.value
    /\ DOMAIN ret.value = DOMAIN modules \ {"__proto__"}


\* the step is one of calculate or batchCalculate
CalculationStep ==
    \/ calc' # calc
    \/ batch' # batch
    \/ /\ ret'.op \in {"calculate", "batchCalculate"}
       /\ \/ ret'.op # ret.op
          \/ ret'.phase # ret.phase
          \/ ret'.calls # ret.calls

C24_Step ==
    CalculationStep =>
        /\ UNCHANGED managerVars
        /\ InFlightCount' = InFlightCount
        /\ \A i \in DOMAIN ret'.calls :
               IsSettled(ret'.calls[i]) =>
                   ret'.calls[i].result.success =
                       (ret'.calls[i].input.data = "valid")

\* C24: calculations never wait on the network.  Every calculate and every
\* batchCalculate over the weather engine that has started returns, whatever
\* the client manager does meanwhile and whether or not the network ever
\* answers; no step of a calculation sends a request or changes the health
\* state, the client map or the tokens, and whether a calculation succeeds
\* is decided by its input alone.
C24_CalculationsNeverWait ==
    /\ [][C24_Step]_vars
    /\ (calc.state = "pending") ~> (calc.state = "idle")
    /\ (batch.state = "running") ~>
           (ret.op = "batchCalculate" /\ ret.phase = "settled")

\* a batch over the weather engine has returned while no backend is
\* healthy, a request that was never answered is in flight and a token is
\* stored
C24_Witness ==
    /\ ret.op = "batchCalculate"
    /\ ret.phase = "settled"
    /\ Len(ret.value) = 2
    /\ ret.value[1].success
    /\ InFlightCount = 1
    /\ \A k \in Backends : ~isBackendHealthy(k)
    /\ storage["weather"] = "T1"


(***************************************************************************)
(* Properties of the weather engine                                        *)
(***************************************************************************)
\* the weather engine has answered an input that validateInput accepts
WeatherAnswered(type) ==
    /\ wx.phase = "returned"
    /\ wx.input.type = type
    /\ wx.valid
    /\ modulesGet(wx.input.module) # Undefined

\* C26: heat index passthrough.  For every heat_index input that
\* validateInput accepts and whose temperature in Fahrenheit, 9T/5 + 32, is
\* below 80, for every humidity in [0,100], the calculation succeeds without
\* an error, heatIndex is the input temperature unchanged and the
\* description says that the heat index is not applicable.
C26_HeatIndexPassthrough ==
    (/\ WeatherAnswered("heat_index")
     /\ ~wx.input.data.temperature.nan
     /\ 9 * wx.input.data.temperature.n < 5 * (80000 - 32000)) =>
        /\ wx.answer.success
        /\ "error" \notin DOMAIN wx.answer
        /\ wx.answer.data.heatIndex = wx.input.data.temperature
        /\ wx.answer.data.description =
               "Heat index not applicable (temperature too low)"

\* the heat index of 26.666 C (79.9988 F) at 100% humidity has been returned
\* as 26.666
C26_Witness ==
    /\ WeatherAnswered("heat_index")
    /\ wx.input.data.temperature = Num(26666)
    /\ wx.input.data.humidity = Num(100000)
    /\ wx.answer.success
    /\ wx.answer.data.heatIndex = Num(26666)

\* C27: wind chill passthrough.  For every wind_chill input that
\* validateInput accepts, with a temperature above 10 C whatever the wind
\* speed, or with a wind speed below 4.8 km/h (3.6 times the speed in m/s)
\* whatever the temperature, the calculation succeeds, windChill is the
\* input temperature unchanged and the description says that the wind chill
\* is not applicable.
C27_WindChillPassthrough ==
    (/\ WeatherAnswered("wind_chill")
     /\ \/ Gt(wx.input.data.temperature, 10000)
        \/ 36 * wx.input.data.windSpeed.n < 48000) =>
        /\ wx.answer.success
        /\ "error" \notin DOMAIN wx.answer
        /\ wx.answer.data.windChill = wx.input.data.temperature
        /\ wx.answer.data.description = "Wind chill not applicable"

\* the wind chill of 15 C in a wind of 30 m/s has been returned as 15
C27_Witness ==
    /\ WeatherAnswered("wind_chill")
    /\ wx.input.data.temperature = Num(15000)
    /\ wx.input.data.windSpeed = Num(30000)
    /\ wx.answer.success
    /\ wx.answer.data.windChill = Num(15000)


\* humidity is a number in [0,100]
HumidityInRange(data) ==
    /\ typeofNumber(data.humidity)
    /\ Ge(data.humidity, 0)
    /\ Le(data.humidity, 100000)

\* the other inputs the validation is said to refuse: a wind_chill with a
\* negative wind speed, a temperature_conversion with a unit that is none of
\* the three, a module that is not weather, no data, a type that is not
\* supported
RefusedOtherwise(input) ==
    \/ /\ input.type = "wind_chill"
       /\ typeofNumber(input.data.windSpeed)
       /\ Lt(input.data.windSpeed, 0)
    \/ /\ input.type = "temperature_conversion"
       /\ \/ input.data.fromUnit \notin Units
          \/ input.data.toUnit \notin Units
    \/ input.module # "weather"
    \/ input.data.kind = "null"
    \/ input.type \notin SupportedCalculations

\* validateInput has returned false and, where the module of the input is
\* bound to the weather engine, the dispatcher has answered InvalidInput
Refused ==
    /\ ~wx.valid
    /\ modulesGet(wx.input.module) # Undefined =>
           /\ ~wx.answer.success
           /\ wx.answer.error = InvalidInput(wx.input, now).error

\* C25: validation is a field-level gate for every calculation kind.
\* validateInput returns false, and the dispatcher answers InvalidInput, for
\* every input of heat_index, dew_point, comfort_index or weather_summary
\* whose humidity is not a number in [0,100], for a wind_chill input with
\* negative wind speed, for a temperature_conversion whose fromUnit or
\* toUnit is not celsius, fahrenheit or kelvin, for an input whose module
\* is not weather or whose data is missing, and for an unknown type.
C25_ValidationGate ==
    (/\ wx.phase = "returned"
     /\ \/ /\ wx.input.type \in {"heat_index", "dew_point", "comfort_index",
                                  "weather_summary"}
           /\ ~HumidityInRange(wx.input.data)
        \/ RefusedOtherwise(wx.input)) =>
        Refused

\* what validateInput does refuse: the humidity is held to [0,100] for
\* heat_index and dew_point, and to the type number for comfort_index and
\* weather_summary
C25_GateOfTheCode ==
    (/\ wx.phase = "returned"
     /\ \/ /\ wx.input.type \in {"heat_index", "dew_point"}
           /\ ~HumidityInRange(wx.input.data)
        \/ /\ wx.input.type \in {"comfort_index", "weather_summary"}
           /\ ~typeofNumber(wx.input.data.humidity)
        \/ RefusedOtherwise(wx.input)) =>
        Refused

\* a comfort_index with a humidity of 150 has been accepted and computed
C25_Witness ==
    /\ wx.phase = "returned"
    /\ wx.input.type = "comfort_index"
    /\ wx.input.data.humidity = Num(150000)
    /\ wx.valid
    /\ wx.answer.success

\* three times the change of a series of at least 6 samples: the sum of the
\* last 3 samples minus the sum of the 3 before them
ThreeTimesChange(series) ==
    LET n == Len(series)
    IN  (series[n].n + series[n - 1].n + series[n - 2].n)
        - (series[n - 3].n + series[n - 4].n + series[n - 5].n)

ConvertedBack ==
    /\ wx.phase = "converted back"
    /\ wx.valid
    /\ ~wx.input.data.temperature.nan
    /\ wx.back.success

\* how far the temperature that came back is from the one that went in, in
\* thousandths
RoundTripError ==
    Abs(wx.back.data.convertedTemperature.n - wx.input.data.temperature.n)

\* converting a unit to itself returns X rounded to 2 decimals
SameUnitRounds ==
    wx.input.data.fromUnit = wx.input.data.toUnit =>
        wx.answer.data.convertedTemperature =
            Num(10 * MathRound(wx.input.data.temperature.n, 10))

C30_ComfortBounded ==
    WeatherAnswered("comfort_index") =>
        LET index == wx.answer.data.comfortIndex
        IN  /\ wx.answer.success
            /\ typeofNumber(index) /\ ~index.nan
            /\ index.n % 1000 = 0
            /\ index.n >= 0 /\ index.n <= 100000
            /\ wx.answer.data.description =
                   (IF index.n >= 80000 THEN "Excellent weather conditions"
                    ELSE IF index.n >= 60000 THEN "Good weather conditions"
                    ELSE IF index.n >= 40000 THEN "Fair weather conditions"
                    ELSE IF index.n >= 20000 THEN "Poor weather conditions"
                    ELSE "Very poor weather conditions")

\* the comfort index of -30 C at a humidity of 150 in a wind of 8.001 m/s
\* has been returned as 0, very poor
C30_Witness ==
    /\ WeatherAnswered("comfort_index")
    /\ wx.input.data.temperature = Num(0 - 30000)
    /\ wx.input.data.humidity = Num(150000)
    /\ wx.input.data.windSpeed = Num(8001)
    /\ wx.answer.data.comfortIndex = Num(0)
    /\ wx.answer.data.description = "Very poor weather conditions"


\* the dew point is a number that is at most the temperature; a dew point
\* that is known only as the value of the Magnus formula is taken to be so
AtMostTemperature(dewPoint, temperature) ==
    \/ "formula" \in DOMAIN dewPoint
    \/ /\ ~dewPoint.nan
       /\ ~temperature.nan
       /\ dewPoint.n <= temperature.n

\* C31: the dew point never exceeds the air temperature.  For every
\* dew_point input that validateInput accepts, with a humidity from 0 to
\* 100 inclusive, the dewPoint returned is less than or equal to the input
\* temperature.
C31_DewPointAtMostTemperature ==
    (/\ WeatherAnswered("dew_point")
     /\ ~wx.input.data.temperature.nan) =>
        /\ wx.answer.success
        /\ AtMostTemperature(wx.answer.data.dewPoint,
                             wx.input.data.temperature)

\* the dew point of 20 C at humidity 0 has been returned as NaN
C31_Witness ==
    /\ WeatherAnswered("dew_point")
    /\ wx.input.data.temperature = Num(20000)
    /\ wx.input.data.humidity = Num(0)
    /\ wx.answer.success
    /\ wx.answer.data.dewPoint = NaN

\* the dew point of 20.06 C at humidity 100 has been returned as 20.1
C31_RoundedUp ==
    /\ WeatherAnswered("dew_point")
    /\ wx.input.data.temperature = Num(20060)
    /\ wx.input.data.humidity = Num(100000)
    /\ wx.answer.data.dewPoint = Num(20100)


(***************************************************************************)
(* Properties of the client manager: checks in flight                      *)
(***************************************************************************)
\* a health check whose request was answered in this step
HealthCheckAnswered(k) ==
    /\ last'.op = "healthCheck"
    /\ last'.phase = "settled"
    /\ last'.outcome # "-"
    /\ last'.key = k

C32_Step ==
    \A k \in Backends :
        (last.op = "refreshClients" /\ HealthCheckAnswered(k)) =>
            /\ healthStatus' = healthStatus
            /\ ~isBackendHealthy(k)'

\* C32: a refresh is a clean cut for the health state. A health check that
\* was started before refreshClients does not write the health state after
\* the refresh: when the step that follows a refresh is the answer to a
\* check (which was therefore in flight across the refresh), the health map
\* is left as the refresh made it and the backend is still reported
\* unhealthy.
C32_RefreshIsCleanCut == [][C32_Step]_vars

\* a health check of backend k has completed in this step
HealthCheckCompleted(k) ==
    /\ last'.op = "healthCheck"
    /\ last'.phase = "settled"
    /\ last'.key = k

C33_Step ==
    \A k \in Backends :
        /\ HealthCheckCompleted(k) =>
               isBackendHealthy(k)' = (last'.status = "resolved")
        /\ last'.op = "refreshClients" => ~isBackendHealthy(k)'
        /\ (~HealthCheckCompleted(k) /\ last'.op # "refreshClients") =>
               isBackendHealthy(k)' = isBackendHealthy(k)

\* C33: the health flag of backend k is the outcome of the check of k that
\* completed last, whatever the order in which overlapping checks of k were
\* started. The flag is false after construction and after a refresh; every
\* step that completes a check of k, stand-alone or inside healthCheckAll,
\* sets it to that check's outcome; no other step changes it.
C33_LastCompletedWins ==
    /\ \A k \in Keys : ~isBackendHealthy(k)
    /\ [][C33_Step]_vars

\* the check of weather inside a running healthCheckAll has just failed
\* while a stand-alone check of weather, sent before that answer, is still
\* in flight: the flag is the outcome of the check that completed
C33_Witness ==
    /\ all.state = "running"
    /\ "weather" \in DOMAIN all.seen
    /\ all.seen["weather"] = "refused"
    /\ \E c \in BagToSet(inflight) : c.op = "healthCheck" /\ c.key = "weather"
    /\ last.op = "healthCheck"
    /\ last.phase = "settled"
    /\ last.key = "weather"
    /\ last.status = "rejected"
    /\ "weather" \in checked
    /\ ~isBackendHealthy("weather")

\* the answer to call c is a 401 and is processed in this step
Unauthorized(c) ==
    /\ BagIn(c, inflight)
    /\ ~BagIn(c, inflight')
    /\ last'.phase = "settled"
    /\ last'.outcome = "http401"
    /\ last'.key = c.key

C34_Step ==
    \A c \in BagToSet(inflight) :
        (/\ Unauthorized(c)
         /\ c.Authorization = "Bearer T1"
         /\ storage[c.key] = "T2") =>
            /\ storage'[c.key] = NoToken
            /\ requestInterceptor(c.key)' = NoHeader

\* C34: token eviction acts on the token stored when the 401 is processed,
\* not on the token the request was sent with. When a request to backend k
\* was sent with token T1, T2 was stored for k while it was in flight, and
\* the answer is a 401, then after the answer is processed no token is
\* stored for k and a request to k sent next carries no Authorization
\* header.
C34_EvictsStoredToken == [][C34_Step]_vars

\* a request to weather sent with T1 is in flight, setAuthToken has just
\* stored T2 for weather, and the 401 that answers the request can be
\* processed and leaves no token for weather
C34_Witness ==
    /\ last.op = "setAuthToken"
    /\ last.key = "weather"
    /\ storage["weather"] = "T2"
    /\ \E c \in BagToSet(inflight) :
           /\ c.op = "request"
           /\ c.key = "weather"
           /\ c.Authorization = "Bearer T1"
           /\ ENABLED (/\ RequestComplete(c, "http401")
                       /\ storage'["weather"] = NoToken)

\* healthCheck(k) has rejected in this step without waiting for an answer
HealthCheckRefused(k) ==
    /\ last'.op = "healthCheck"
    /\ last'.key = k
    /\ last'.phase = "settled"
    /\ last'.outcome = "-"

\* no request was sent in this step
NothingSent == inflight' = inflight /\ all' = all

\* what the claim says of the keys in unknown and of the disabled backends
UnknownVersusDisabled(unknown) ==
    /\ \A k \in unknown :
           (last'.op = "healthCheck" /\ last'.key = k) =>
               /\ HealthCheckRefused(k)
               /\ last'.status = "rejected"
               /\ last'.value = NoConfigError(k)
               /\ NothingSent
               /\ UNCHANGED <<clients, healthStatus, storage, checked>>
    /\ \A k \in Backends \ enabled :
           (last'.op = "healthCheck" /\ last'.key = k) =>
               /\ HealthCheckRefused(k)
               /\ last'.status = "rejected"
               /\ last'.value = NotConfiguredError(k)
               /\ NothingSent
               /\ HealthEntry(healthStatus', k) = "false"
               /\ \A j \in Keys \ {k} :
                      HealthEntry(healthStatus', j) = HealthEntry(healthStatus, j)

\* C35: healthCheck tells unknown keys from disabled ones. For a key with
\* no configuration it rejects before touching any state: the health map is
\* unchanged and no request is sent. For a configured backend that is not
\* enabled it sends no request either, rejects with the not-configured
\* error of request, and records the key as unhealthy in the health map.
C35_UnknownVersusDisabled ==
    [][UnknownVersusDisabled(UnknownKeys \cup InheritedKeys)]_vars

\* the same for the keys under which the configuration object has no
\* property at all, own or inherited
C35_NoPropertyVersusDisabled == [][UnknownVersusDisabled(UnknownKeys)]_vars

\* healthCheck of the unknown key has just rejected and left no entry,
\* while the disabled backend finance, checked before, has the entry false
C35_Witness ==
    /\ last.op = "healthCheck"
    /\ last.key = "nokey"
    /\ last.status = "rejected"
    /\ last.value = NoConfigError("nokey")
    /\ "finance" \notin enabled
    /\ HealthEntry(healthStatus, "finance") = "false"
    /\ HealthEntry(healthStatus, "nokey") = "absent"

\* healthCheck of a key that is no backend has rejected with the error of
\* request and left an entry in the health map
C35_InheritedKeyRecorded ==
    /\ last.op = "healthCheck"
    /\ last.key = "constructor"
    /\ last.status = "rejected"
    /\ last.value = NotConfiguredError("constructor")
    /\ HealthEntry(healthStatus, "constructor") = "false"

C36_Step ==
    \A k \in Backends :
        /\ (HealthCheckCompleted(k) /\ Is2xx(last'.outcome)) =>
               /\ HealthEntry(healthStatus', k) = "true"
               /\ last'.status = "resolved"
               /\ last'.value = PayloadOf(k, last'.outcome)
        /\ (/\ HealthEntry(healthStatus', k) = "false"
            /\ HealthEntry(healthStatus, k) # "false") =>
               /\ HealthCheckCompleted(k)
               /\ last'.status = "rejected"
               /\ ~Is2xx(last'.outcome)

\* C36: the health flag follows the transport outcome, not the payload.
\* Whenever the GET to the health endpoint is answered with a 2xx response,
\* healthCheck sets the flag of the backend to true and returns the payload,
\* also when the payload says status 'unhealthy'; the flag is set to false
\* only by a check whose call failed.
C36_FlagFollowsTransport == [][C36_Step]_vars

\* a check of weather was answered 2xx with a payload that says unhealthy:
\* the payload was returned and weather is reported healthy
C36_Witness ==
    /\ last.op = "healthCheck"
    /\ last.phase = "settled"
    /\ last.key = "weather"
    /\ last.outcome = Unhealthy200
    /\ last.status = "resolved"
    /\ last.value.status = "unhealthy"
    /\ isBackendHealthy("weather")


(***************************************************************************)
(* Properties of the query definitions                                     *)
(***************************************************************************)
\* C37: health gates the weather data queries. Each of the definitions
\* currentWeather, forecast, alerts, historical and stats is enabled exactly
\* when the health flag of weather is true at the moment the definition is
\* built, so an enabled one is only built after a check of weather has
\* succeeded since construction or the last refresh; the definition of the
\* health query carries no enabled property at all.
C37_HealthGatesDataQueries ==
    last.op = "weatherQueries" =>
        IF last.key \in DataQueries
        THEN /\ last.value.enabled = isBackendHealthy("weather")
             /\ last.value.enabled =>
                    /\ "weather" \in checked
                    /\ HealthEntry(healthStatus, "weather") = "true"
        ELSE "enabled" \notin DOMAIN last.value

\* the definition of currentWeather was built while weather was healthy and
\* is enabled
C37_Witness ==
    /\ last.op = "weatherQueries"
    /\ last.key = "currentWeather"
    /\ last.value.enabled
    /\ isBackendHealthy("weather")

\* C38: the default retry policy of the query layer, applied to the failures
\* the client manager raises. A call that failed with an HTTP 4xx status is
\* never retried; any other failure is retried exactly while fewer than 3
\* failures have occurred.
C38_RetryPolicy ==
    last.op = "retry" =>
        IF last.outcome = "http401"
        THEN ~last.value.again
        ELSE last.value.again = (last.value.failureCount < 3)

\* a request answered 401 has failed for the first time and the policy
\* says to make it again
C38_UnauthorizedRetried ==
    /\ last.op = "retry"
    /\ last.outcome = "http401"
    /\ last.value.failureCount = 0
    /\ last.value.again

\* the result is the one of the default branch of calculate's switch
UnsupportedType(result, type) ==
    /\ ~result.success
    /\ result.error = "Unsupported calculation type: " \o type

\* the list as a set
RangeOf(list) == {list[i] : i \in DOMAIN list}

\* C39: the three views the weather engine gives of its capabilities agree.
\* getSupportedCalculations lists exactly the seven kinds, each once;
\* whenever validateInput accepts an input its type is one of them; and for
\* every input validateInput accepts calculate handles the type, so the
\* dispatcher never returns the 'Unsupported calculation type' failure.
C39_CapabilitiesAgree ==
    LET supported == getSupportedCalculations("weatherCalculations")
    IN  /\ RangeOf(supported) = SupportedCalculations
        /\ Len(supported) = 7
        /\ Cardinality(RangeOf(supported)) = 7
        /\ wx.phase = "returned" =>
               /\ wx.valid =>
                      /\ wx.input.type \in RangeOf(supported)
                      /\ ~UnsupportedType(weatherCalculate(wx.input),
                                          wx.input.type)
               /\ ~UnsupportedType(wx.answer, wx.input.type)

\* an input of a type the engine does not list, with a module and data that
\* pass, was refused by validateInput and the dispatcher answered that the
\* input is invalid, though calculate itself would take the default branch
C39_Witness ==
    /\ wx.phase = "returned"
    /\ wx.input.type = "uv_index"
    /\ wx.input.module = "weather"
    /\ wx.input.data.kind = "object"
    /\ ~wx.valid
    /\ ~wx.answer.success
    /\ wx.answer = InvalidInput(wx.input, now)
    /\ UnsupportedType(weatherCalculate(wx.input), "uv_index")

\* no sample of the series is NaN
AllNumbers(series) == \A i \in DOMAIN series : ~series[i].nan

\* what the claim says of the series in short
ShortSeries(short) ==
    /\ (/\ wx.phase = "returned"
        /\ wx.input.type = "pressure_trend"
        /\ wx.answer.success) =>
           wx.answer.data.trend # "insufficient data"
    /\ (/\ WeatherAnswered("pressure_trend")
        /\ wx.input.data.samples \in short) =>
           /\ wx.answer.success
           /\ wx.answer.data.trend = "stable"
           /\ wx.answer.data.prediction =
                  "Weather conditions likely to remain stable"
           /\ wx.answer.data.strength = Num(0)

\* the accepted series of 2 or 3 samples among the inputs
ShortSamples ==
    {input.data.samples : input \in {i \in PressureInputs :
        Len(i.data.samples) \in {2, 3}}}

\* C40: short pressure series. Through the dispatcher the 'insufficient
\* data' outcome is unreachable, and a series of 2 or 3 samples is always
\* classified 'stable' with strength 0, whatever its values.
C40_ShortSeriesStable == ShortSeries(ShortSamples)

\* the same for the short series that hold no NaN
C40_ShortSeriesOfNumbersStable ==
    ShortSeries({series \in ShortSamples : AllNumbers(series)})

\* the series 1010, 1020 has been classified as stable with strength 0
C40_Witness ==
    /\ WeatherAnswered("pressure_trend")
    /\ wx.input.data.samples = Samples(<<1010000, 1020000>>)
    /\ wx.answer.data.trend = "stable"
    /\ wx.answer.data.strength = Num(0)

\* the series NaN, 1013 has been accepted and classified as falling with
\* strength NaN
C40_NaNSampleFalling ==
    /\ WeatherAnswered("pressure_trend")
    /\ wx.input.data.samples = <<NaN, Num(1013000)>>
    /\ wx.answer.success
    /\ wx.answer.data.trend = "falling"
    /\ wx.answer.data.strength = NaN


====
